---- MODULE Spec2Model ----
(***************************************************************************)
(* Model of static/universal-tutorial-manager.js: the UniversalTutorial-   *)
(* Manager engine (one instance bound to one page), the part of the DOM    *)
(* and of localStorage it reads and writes, the renderer (window.driver)   *)
(* at its interface, and the timers and events that call back into the    *)
(* engine.  Every handler is a function from the whole state (a record)    *)
(* to the whole state, so that a handler that calls another handler is    *)
(* the composition of the two, exactly as the JavaScript runs them: to     *)
(* completion, one at a time.                                              *)
(***************************************************************************)
EXTENDS Naturals, Sequences, FiniteSets, TLC

VARIABLES
    path,               \* window.location.pathname, as its segments
    currentPage,        \* this.currentPage, fixed at construction (detectPage)
    modelType,          \* text of #model-type-text: "Live2D" or "VRM"
    storage,            \* localStorage: key -> "null" (absent) or the stored string
    dom,                \* element -> inline style, class list, data-in-tutorial
    sheet,              \* element -> what the style sheets and the layout give it
    present,            \* the elements that are in the document
    isInitialized,      \* this.isInitialized
    isTutorialRunning,  \* this.isTutorialRunning
    isInTutorial,       \* window.isInTutorial
    shouldMarkHintShown,\* this.shouldMarkHintShown
    cachedValidSteps,   \* this.cachedValidSteps
    modifiedElementsMap,\* this.modifiedElementsMap: element -> record or NoRecord
    saved,              \* the environment saves of startTutorialSteps
    protectionTimer,    \* this.floatingButtonsProtectionTimer: 0 (null) or an interval id
    liveIntervals,      \* ids of the protection intervals the browser still runs
    popoverDragListeners, \* this._popoverDragListeners is set
    driver,             \* the renderer: active, steps, listeners registered with on()
    prompts,            \* fullscreen prompt overlays on display
    fsClosures,         \* accepted prompts: listener / 2 s fallback still pending
    pendingStepStarts,  \* promise chains that end in startTutorialSteps(validSteps)
    fullscreen,         \* document.fullscreenElement is set
    fsRequested,        \* a fullscreen request the browser has not answered yet
    pendingAutoStarts,  \* setTimeout(() => this.startTutorial()) not yet fired
    pendingTypeChecks,  \* model-type change listener's 500 ms timers not yet fired
    sinceTick,          \* ms since the protection interval was installed or ticked
    sinceHide,          \* ms since the host's script last hid the toolbar
    pendingClicks,      \* onStepChange's 300 ms auto-click timers not yet fired
    settingsPopup,      \* the host's settings popup, which #live2d-btn-settings toggles
    nextButtonGuardTimer,  \* this.nextButtonGuardTimer holds an interval's handle
    nextButtonGuardActive, \* this.nextButtonGuardActive
    guardIntervals,     \* the guard intervals the browser still runs
    windowDriver,       \* window.driver is defined (the renderer's script is loaded)
    attempts,           \* waitForDriver's poll counter; 0 when no poll is pending
    errors,             \* how often waitForDriver reported that it gave up
    lastWarn,           \* what the handler that ran last wrote to the console:
                        \* the warning startTutorial returned early with, the
                        \* error its catch block reported, or the line
                        \* exitFullscreenMode logs; "" otherwise
    preStart,           \* history: dom when startTutorial last began validating
    modelSelected,      \* the value of the host's #model-select is not empty
    typeListeners,      \* 'change' listeners the engine added to #model-type-select
    wait,               \* a readiness wait followed poll by poll: Date.now() -
                        \* startTime at its last poll, and what it resolved to
    ui,                 \* the first character card and the advanced section in it
    expanders,          \* the invocations of _ensureCharaManagerExpanded: which
                        \* timer each has pending, its attempts, its clickedToggle
    dragSets,           \* the sets of drag handlers attached: mousedown on the
                        \* drag region, mousemove and mouseup on the document
    pendingStartFor     \* history, kept where the model-type checks are
                        \* followed one by one: the sub-context resolved by the
                        \* check that set the pending start timer; "" otherwise

vars == << path, currentPage, modelType, storage, dom, sheet, present, isInitialized,
           isTutorialRunning, isInTutorial, shouldMarkHintShown, cachedValidSteps,
           modifiedElementsMap, saved, protectionTimer, liveIntervals,
           popoverDragListeners, driver, prompts, fsClosures, pendingStepStarts,
           fullscreen, fsRequested, pendingAutoStarts, pendingTypeChecks,
           pendingClicks, settingsPopup, nextButtonGuardTimer,
           nextButtonGuardActive, guardIntervals, sinceTick, sinceHide,
           windowDriver, attempts, errors, lastWarn, preStart, modelSelected,
           typeListeners, pendingStartFor, wait, ui, expanders, dragSets >>

---------------------------------------------------------------------------
(* Bounds of the model.                                                    *)

\* Protection intervals the browser runs at once.
MaxIntervals == 2

\* Listeners per renderer event; the largest value stands for "or more".
MaxListeners == 2

\* Fullscreen prompts that are on display, or accepted with their listener or
\* their fallback still pending.
MaxPrompts == 1

\* Pending timers of one kind, pending step starts.
MaxPending == 1

\* Failure reports of waitForDriver that are counted.
MaxReports == 2

\* maxAttempts of waitForDriver
maxAttempts == 100

---------------------------------------------------------------------------
(* Contexts and storage keys.                                              *)

Pages == { "home", "model_manager", "parameter_editor", "emotion_manager",
           "chara_manager", "settings", "voice_clone", "steam_workshop",
           "memory_browser" }

detectPageResults == Pages \cup { "unknown" }

\* Segments of a location path; a path is followed up to MaxSegments of them.
MaxSegments == 2

Segments == { "index.html", "model_manager", "l2d", "parameter_editor",
              "emotion_manager", "chara_manager", "api_key", "settings",
              "voice_clone", "steam_workshop", "memory_browser", "other" }

RECURSIVE SeqsUpTo(_, _)
SeqsUpTo(set, n) ==
    IF n = 0 THEN { << >> }
    ELSE SeqsUpTo(set, n - 1) \cup
         { Append(q, x) : q \in SeqsUpTo(set, n - 1), x \in set }

\* '/' is the path without segments, '/index.html' the path of that segment.
Paths == SeqsUpTo(Segments, MaxSegments)

\* path === '/' || path === '/index.html'
IsRoot(p) == p = << >> \/ p = << "index.html" >>

\* path.includes(name), for the names the resolvers look for
Includes(p, name) == \E i \in DOMAIN p : p[i] = name

\* detectPage(): the first rule that matches decides.
detectPage(p) ==
    IF IsRoot(p) THEN "home"
    ELSE IF Includes(p, "model_manager") \/ Includes(p, "l2d") THEN "model_manager"
    ELSE IF Includes(p, "parameter_editor") THEN "parameter_editor"
    ELSE IF Includes(p, "emotion_manager") THEN "emotion_manager"
    ELSE IF Includes(p, "chara_manager") THEN "chara_manager"
    ELSE IF Includes(p, "api_key") \/ Includes(p, "settings") THEN "settings"
    ELSE IF Includes(p, "voice_clone") THEN "voice_clone"
    ELSE IF Includes(p, "steam_workshop") THEN "steam_workshop"
    ELSE IF Includes(p, "memory_browser") THEN "memory_browser"
    ELSE "unknown"

\* currentPageType of initUniversalTutorialManager()
currentPageType(p) ==
    IF IsRoot(p) THEN "home"
    ELSE IF Includes(p, "parameter_editor") THEN "parameter_editor"
    ELSE IF Includes(p, "emotion_manager") THEN "emotion_manager"
    ELSE IF Includes(p, "model_manager") \/ Includes(p, "l2d") THEN "model_manager"
    ELSE IF Includes(p, "chara_manager") THEN "chara_manager"
    ELSE IF Includes(p, "api_key") \/ Includes(p, "settings") THEN "settings"
    ELSE IF Includes(p, "voice_clone") THEN "voice_clone"
    ELSE IF Includes(p, "steam_workshop") THEN "steam_workshop"
    ELSE IF Includes(p, "memory_browser") THEN "memory_browser"
    ELSE "unknown"

\* The path each page is visited under.
PagePaths ==
    { << >>, << "model_manager" >>, << "parameter_editor" >>,
      << "emotion_manager" >>, << "chara_manager" >>, << "settings" >>,
      << "voice_clone" >>, << "steam_workshop" >>, << "memory_browser" >>,
      << "other" >> }

STORAGE_KEY_PREFIX == "neko_tutorial_"

HintKey == "neko_tutorial_reset_hint_shown"

ModelManagerKeys == << STORAGE_KEY_PREFIX \o "model_manager",
                       STORAGE_KEY_PREFIX \o "model_manager_live2d",
                       STORAGE_KEY_PREFIX \o "model_manager_vrm",
                       STORAGE_KEY_PREFIX \o "model_manager_common" >>

Range(f) == { f[i] : i \in DOMAIN f }

\* getStorageKeysForPage(page), as the list the code builds
getStorageKeysForPage(page) ==
    IF page = "model_manager"
    THEN ModelManagerKeys
    ELSE << STORAGE_KEY_PREFIX \o page >>

\* The page names resetPageTutorial and hasSeenTutorial are called with: the
\* contexts and the two model_manager sub-contexts.
ContextNames == detectPageResults \cup { "model_manager_live2d", "model_manager_vrm" }

StorageKeys ==
    { STORAGE_KEY_PREFIX \o p : p \in ContextNames \cup { "model_manager_common" } }
    \cup { HintKey }

Unset == "null"

\* localStorage.getItem(key) is truthy
Truthy(v) == v # Unset /\ v # ""

---------------------------------------------------------------------------
(* The DOM: selectors name elements.                                       *)

\* "color" stands for every declaration the engine never writes.
StyleProps == { "display", "visibility", "opacity", "pointerEvents",
                "left", "right", "transform", "marginTop", "overflow", "color" }

HidingProps == << "display", "visibility", "opacity" >>

NoDecl == [ p \in StyleProps |-> "" ]

\* An element without a style attribute, and one whose attribute is empty.
NoStyle == [ attr |-> FALSE, decl |-> NoDecl ]
EmptyStyle == [ attr |-> TRUE, decl |-> NoDecl ]

\* The value of a declaration without its priority: what element.style.x reads.
Important(v) == v \o " !important"
ValueOf(v) ==
    CASE v = Important("flex") -> "flex"
      [] v = Important("block") -> "block"
      [] v = Important("visible") -> "visible"
      [] v = Important("1") -> "1"
      [] OTHER -> v

\* element.style.x = v and element.style.setProperty(x, v, priority): a
\* non-empty value creates the style attribute, an empty one removes the
\* declaration and leaves the attribute as it is.
SetStyle(el, p, v) ==
    [ el EXCEPT !.style = [ attr |-> (el.style.attr \/ v # ""),
                            decl |-> [ el.style.decl EXCEPT ![p] = v ] ] ]

RemoveProperty(el, p) == SetStyle(el, p, "")

\* element.getAttribute('style') || '': the text of the declarations, and the
\* empty text both for an absent and for an empty attribute.
OriginalInlineStyle(el) == IF el.style.attr THEN el.style.decl ELSE NoDecl

\* window.getComputedStyle(element)[p] for the three hiding properties: the
\* inline declaration wins over the style sheets.
Computed(d, sh, e, p) ==
    IF d[e].style.decl[p] # "" THEN ValueOf(d[e].style.decl[p]) ELSE sh[e][p]

Selectors(steps) == { steps[i].element : i \in DOMAIN steps }

---------------------------------------------------------------------------
(* The step lists (the behavioural fields of each step).                   *)

Step(el) == [ element |-> el, skipInitialCheck |-> FALSE, skipAutoShow |-> FALSE,
              action |-> "", enableModelInteraction |-> FALSE ]

getTutorialResetHintStep == Step("body")

getHomeSteps ==
    << Step("#live2d-container"),
       [ Step("#live2d-container") EXCEPT !.enableModelInteraction = TRUE ],
       [ Step("#live2d-container") EXCEPT !.enableModelInteraction = TRUE ],
       Step("#live2d-lock-icon"),
       Step("#chat-container"),
       Step("#live2d-floating-buttons"),
       Step("#live2d-btn-mic"),
       Step("#live2d-btn-screen"),
       Step("#live2d-btn-agent"),
       Step("#live2d-btn-goodbye"),
       [ Step("#live2d-btn-settings") EXCEPT !.action = "click" ],
       Step("#live2d-toggle-merge-messages"),
       Step("#live2d-toggle-focus-mode"),
       Step("#live2d-toggle-proactive-chat"),
       Step("#live2d-toggle-proactive-vision"),
       Step("#live2d-menu-character"),
       Step("#live2d-menu-api-keys"),
       Step("#live2d-menu-memory"),
       Step("#live2d-menu-steam-workshop") >>

live2dSteps ==
    << Step("#persistent-expression-select-btn"), Step("#emotion-config-btn"),
       Step("#parameter-editor-btn") >>

vrmSteps ==
    << Step("#ambient-light-slider"), Step("#main-light-slider"),
       Step("#exposure-slider"), Step("#tonemapping-select") >>

isVRM(mt) == mt = "VRM"

getModelManagerSteps(mt) == IF isVRM(mt) THEN vrmSteps ELSE live2dSteps

getParameterEditorSteps == << Step("#model-select-btn"), Step("#parameters-list") >>

getEmotionManagerSteps ==
    << Step("#model-select"),
       [ Step("#emotion-config") EXCEPT !.skipAutoShow = TRUE ],
       Step("#reset-btn") >>

getCharaManagerSteps ==
    << Step("#master-section"), Step("#catgirl-section"),
       Step(".catgirl-block:first-child button[id^=switch-btn-]") >>

getSettingsSteps == << Step("#coreApiSelect"), Step("#apiKeyInput") >>

getVoiceCloneSteps ==
    << Step(".alibaba-api-notice"), Step("#refLanguage"), Step("#prefix"),
       Step(".register-voice-btn"), Step(".voice-list-section") >>

getSteamWorkshopSteps == << >>

getMemoryBrowserSteps == << Step("#memory-file-list"), Step("#memory-chat-edit") >>

\* configs[page] || []
configs(page, mt) ==
    CASE page = "home" -> getHomeSteps
      [] page = "model_manager" -> getModelManagerSteps(mt)
      [] page = "parameter_editor" -> getParameterEditorSteps
      [] page = "emotion_manager" -> getEmotionManagerSteps
      [] page = "chara_manager" -> getCharaManagerSteps
      [] page = "settings" -> getSettingsSteps
      [] page = "voice_clone" -> getVoiceCloneSteps
      [] page = "steam_workshop" -> getSteamWorkshopSteps
      [] page = "memory_browser" -> getMemoryBrowserSteps
      [] OTHER -> << >>

---------------------------------------------------------------------------
(* The elements of a page.                                                 *)

\* The elements startTutorialSteps and onTutorialEnd look up by id.
Special == { "#chat-container", "#live2d-canvas", "#live2d-container",
             "#live2d-floating-buttons", "#live2d-lock-icon", ".container", "body" }

\* The buttons, toggles and menu entries of the home toolbar: the model keeps
\* them unstyled and visible, so they carry no style state.
PlainTargets ==
    { getHomeSteps[i].element : i \in 7..Len(getHomeSteps) }

PageTargets(page) ==
    IF page = "model_manager"
    THEN Selectors(live2dSteps) \cup Selectors(vrmSteps)
    ELSE Selectors(configs(page, "Live2D"))

\* The elements whose style the model tracks on a page.
Styled(page) == Special \cup (PageTargets(page) \ PlainTargets)

\* What waitForCatgirlCards looks for: the list and its first card.
CatgirlCards == { "#catgirl-list", ".catgirl-block:first-child" }

\* The elements of a fully rendered page: the avatar, the chat panel and the
\* toolbar live on the home page, .container on the character manager.
Rendered(page) ==
    PageTargets(page) \cup { "body" }
    \cup (IF page = "home" THEN Special \ { ".container" } ELSE {})
    \cup (IF page = "chara_manager" THEN { ".container" } \cup CatgirlCards ELSE {})

---------------------------------------------------------------------------
(* The state the handlers transform: the variables that change.            *)

S == [ storage |-> storage, dom |-> dom, isInitialized |-> isInitialized,
       isTutorialRunning |-> isTutorialRunning, isInTutorial |-> isInTutorial,
       shouldMarkHintShown |-> shouldMarkHintShown,
       cachedValidSteps |-> cachedValidSteps,
       modifiedElementsMap |-> modifiedElementsMap, saved |-> saved,
       protectionTimer |-> protectionTimer, liveIntervals |-> liveIntervals,
       popoverDragListeners |-> popoverDragListeners, driver |-> driver,
       prompts |-> prompts, fullscreen |-> fullscreen, fsRequested |-> fsRequested,
       pendingAutoStarts |-> pendingAutoStarts,
       pendingClicks |-> pendingClicks, settingsPopup |-> settingsPopup,
       sinceTick |-> sinceTick, sinceHide |-> sinceHide,
       nextButtonGuardTimer |-> nextButtonGuardTimer,
       nextButtonGuardActive |-> nextButtonGuardActive,
       guardIntervals |-> guardIntervals, windowDriver |-> windowDriver,
       attempts |-> attempts, errors |-> errors, lastWarn |-> "",
       preStart |-> preStart, typeListeners |-> typeListeners, dragSets |-> dragSets,
       pendingStartFor |-> pendingStartFor ]

Undefined == "undefined"

NoTriple == [ set |-> FALSE, a |-> "", b |-> "", c |-> "" ]
Triple(x, y, z) == [ set |-> TRUE, a |-> x, b |-> y, c |-> z ]

NoSaves == [ originalContainerMargin |-> Undefined,
             originalLive2dStyle |-> NoTriple,
             floatingButtonsOriginalStyles |-> NoTriple,
             lockIconOriginalStyles |-> NoTriple,
             originalBodyOverflow |-> Undefined ]

NoRecord == [ has |-> FALSE, originalInlineStyle |-> NoDecl,
              originalClassName |-> "", modifiedProperties |-> << >> ]

\* driver.currentStep is kept in the state on the page whose guard belongs to
\* the step on display; elsewhere every notification brings the renderer's
\* index with it and the state does not keep it.
Followed(i) == IF currentPage = "emotion_manager" THEN i ELSE 0

\* A new renderer instance: not started, no listener registered with on().
\* currentStep counts from 1 and is 0 while no step is on display;
\* nextDisabled is the disabled property of the popover's .driver-next button;
\* steps is the list set with setSteps, while the renderer shows it.
NewDriver == [ active |-> FALSE, listeners |-> 0, currentStep |-> 0,
               nextDisabled |-> FALSE, steps |-> << >> ]

---------------------------------------------------------------------------
(* Persistence.                                                            *)

\* getStorageKey(): the sub-context of model_manager is read from the page
\* at the moment of the call.
SubContext(mt) == IF isVRM(mt) THEN "model_manager_vrm" ELSE "model_manager_live2d"

getStorageKey(mt) ==
    IF currentPage = "model_manager"
    THEN STORAGE_KEY_PREFIX \o SubContext(mt)
    ELSE STORAGE_KEY_PREFIX \o currentPage

setItem(st, key, v) == [ st EXCEPT ![key] = v ]

removeItems(st, keys) == [ k \in DOMAIN st |-> IF k \in keys THEN Unset ELSE st[k] ]

\* hasSeenTutorial(page) with a page given
hasSeenTutorial(st, page) ==
    \E i \in DOMAIN getStorageKeysForPage(page) :
        st[getStorageKeysForPage(page)[i]] = "true"

\* hasSeenTutorial() without argument
hasSeenCurrent(st) == st[getStorageKey(modelType)] = "true"

\* The list of the resetAllTutorials that is in force (the second of the two
\* methods of that name in the class body).
resetAllPages ==
    << "home", "model_manager", "model_manager_live2d", "model_manager_vrm",
       "model_manager_common", "parameter_editor", "emotion_manager",
       "chara_manager", "settings", "voice_clone", "steam_workshop",
       "memory_browser" >>

resetAllTutorials(s) ==
    [ s EXCEPT !.storage =
        removeItems(s.storage, { STORAGE_KEY_PREFIX \o pg : pg \in Range(resetAllPages) }) ]

\* A reset that takes the hint flag along: C10 must fail with it.
resetPageKeysWithHint(pageKey) == { STORAGE_KEY_PREFIX \o pageKey, HintKey }

\* The keys resetPageTutorial(pageKey) removes for a pageKey other than 'all'.
resetPageKeys(pageKey) ==
    IF pageKey = "model_manager"
    THEN Range(ModelManagerKeys)
    ELSE { STORAGE_KEY_PREFIX \o pageKey }

resetPageTutorial(s, pageKey) ==
    IF pageKey = "all"
    THEN resetAllTutorials(s)
    ELSE [ s EXCEPT !.storage = removeItems(s.storage, resetPageKeys(pageKey)) ]

---------------------------------------------------------------------------
(* Visibility.                                                             *)

IsStyled(e) == e \in Styled(currentPage)

HiddenValue(p) ==
    CASE p = "display" -> "none" [] p = "visibility" -> "hidden" [] OTHER -> "0"

ShownValue(p) ==
    CASE p = "display" -> "flex" [] p = "visibility" -> "visible" [] OTHER -> "1"

\* isElementVisible(element) for the element a selector resolves to
isElementVisible(s, e) ==
    /\ e \in present
    /\ IsStyled(e) =>
        /\ Computed(s.dom, sheet, e, "display") # "none"
        /\ Computed(s.dom, sheet, e, "visibility") # "hidden"
        /\ Computed(s.dom, sheet, e, "opacity") # "0"
        /\ ~sheet[e].zeroSize

\* A showElementForTutorial that took a new snapshot at every call.
SnapshotAgain(s, e) ==
    [ has |-> TRUE,
      originalInlineStyle |-> OriginalInlineStyle(s.dom[e]),
      originalClassName |-> s.dom[e].className,
      modifiedProperties |-> s.modifiedElementsMap[e].modifiedProperties ]

\* The record showElementForTutorial works on: the one in the map, or a new
\* one when the map has none for the element.
RecordFor(s, e) ==
    IF s.modifiedElementsMap[e].has
    THEN s.modifiedElementsMap[e]
    ELSE [ has |-> TRUE,
           originalInlineStyle |-> OriginalInlineStyle(s.dom[e]),
           originalClassName |-> s.dom[e].className,
           modifiedProperties |-> << >> ]

\* showElementForTutorial(element, selector)
showElementForTutorial(s, e, selector) ==
    LET hidden == SelectSeq(HidingProps,
                    LAMBDA p : Computed(s.dom, sheet, e, p) = HiddenValue(p))
        rec == RecordFor(s, e)
        st == s.dom[e].style
        el == [ s.dom[e] EXCEPT
                  !.style = [ attr |-> (st.attr \/ hidden # << >>),
                              decl |-> [ p \in StyleProps |->
                                  IF p \in Range(hidden)
                                  THEN Important(ShownValue(p))
                                  ELSE st.decl[p] ] ],
                  !.inTutorial = (@ \/ selector = "#live2d-floating-buttons") ]
    IN  [ s EXCEPT
            !.modifiedElementsMap[e] =
                [ rec EXCEPT !.modifiedProperties = @ \o hidden ],
            !.dom[e] = el ]

\* One element of restoreAllModifiedElements' forEach.
RestoreElement(el, rec) ==
    [ el EXCEPT
        !.style = IF rec.originalInlineStyle # NoDecl
                  THEN [ attr |-> TRUE, decl |-> rec.originalInlineStyle ]
                  ELSE NoStyle,
        !.className = rec.originalClassName,
        !.inTutorial = FALSE ]

\* The same with the assignment to className throwing, as it does in strict
\* code on an SVG element: the style is back, the catch logs, and the class
\* and the data attribute are as they were.
RestoreUntilThrow(el, rec) ==
    [ el EXCEPT
        !.style = IF rec.originalInlineStyle # NoDecl
                  THEN [ attr |-> TRUE, decl |-> rec.originalInlineStyle ]
                  ELSE NoStyle ]

\* A forEach without the try: the elements before the first one that throws
\* are restored, that one in part, and the call ends there with the map as it
\* was.
RestoreWithoutCatch(s) ==
    IF \E e \in DOMAIN s.dom : s.modifiedElementsMap[e].has /\ sheet[e].readOnlyClass
    THEN [ s EXCEPT
             !.dom = [ e \in DOMAIN s.dom |->
                         IF s.modifiedElementsMap[e].has /\ sheet[e].readOnlyClass
                         THEN RestoreUntilThrow(s.dom[e], s.modifiedElementsMap[e])
                         ELSE s.dom[e] ] ]
    ELSE [ s EXCEPT
             !.dom = [ e \in DOMAIN s.dom |->
                         IF s.modifiedElementsMap[e].has
                         THEN RestoreElement(s.dom[e], s.modifiedElementsMap[e])
                         ELSE s.dom[e] ],
             !.modifiedElementsMap =
                 [ e \in DOMAIN s.modifiedElementsMap |-> NoRecord ] ]

\* A restoration that went over every element of the page, tracked or not.
RestoreUntracked(s) ==
    [ s EXCEPT
        !.dom = [ e \in DOMAIN s.dom |->
                    RestoreElement(s.dom[e], s.modifiedElementsMap[e]) ],
        !.modifiedElementsMap = [ e \in DOMAIN s.modifiedElementsMap |-> NoRecord ] ]

\* restoreAllModifiedElements()
restoreAllModifiedElements(s) ==
    [ s EXCEPT
        !.dom = [ e \in DOMAIN s.dom |->
                    IF s.modifiedElementsMap[e].has
                    THEN IF sheet[e].readOnlyClass
                         THEN RestoreUntilThrow(s.dom[e], s.modifiedElementsMap[e])
                         ELSE RestoreElement(s.dom[e], s.modifiedElementsMap[e])
                    ELSE s.dom[e] ],
        !.modifiedElementsMap = [ e \in DOMAIN s.modifiedElementsMap |-> NoRecord ] ]

---------------------------------------------------------------------------
(* Starting a tour.                                                        *)

\* getStepsForPage(): the list, and the state with shouldMarkHintShown set.
getStepsForPage(s) ==
    LET steps == configs(currentPage, modelType)
        hintShown == s.storage[HintKey]
        addHint == Len(steps) > 0 /\ currentPage = "home" /\ ~Truthy(hintShown)
    IN  [ steps |-> IF addHint THEN Append(steps, getTutorialResetHintStep) ELSE steps,
          s |-> [ s EXCEPT !.shouldMarkHintShown = addHint ] ]

\* A filter that keeps the steps whose target is missing: C12 must fail with it.
KeepsEveryStep(step) == TRUE

\* The filter callback of startTutorial: whether the step is kept ...
KeepsStep(step) == step.skipInitialCheck \/ step.element \in present

\* ... and what it does to the element on the way.
FilterEffect(s, step) ==
    IF /\ ~step.skipInitialCheck
       /\ step.element \in present
       /\ ~isElementVisible(s, step.element)
       /\ ~step.skipAutoShow
    THEN showElementForTutorial(s, step.element, step.element)
    ELSE s

RECURSIVE FilterFrom(_, _, _)
FilterFrom(s, steps, i) ==
    IF i > Len(steps)
    THEN [ s |-> s, valid |-> << >> ]
    ELSE LET rest == FilterFrom(FilterEffect(s, steps[i]), steps, i + 1)
         IN  [ s |-> rest.s,
               valid |-> IF KeepsStep(steps[i]) THEN << steps[i] >> \o rest.valid
                                                ELSE rest.valid ]

pagesNeedingFullscreen == { "chara_manager" }

\* element.style.x = v on an element looked up by id or selector, if found
StyleIfPresent(s, e, p, v) ==
    IF e \in present THEN [ s EXCEPT !.dom[e] = SetStyle(@, p, v) ] ELSE s

\* Reads of element.style.x
Inline(s, e, p) == ValueOf(s.dom[e].style.decl[p])

\* The three setProperty(.., 'important') calls on the toolbar or the lock icon
ForceShown(s, e, display) ==
    IF e \in present
    THEN [ s EXCEPT !.dom[e] =
            SetStyle(SetStyle(SetStyle(@, "display", Important(display)),
                              "visibility", Important("visible")),
                     "opacity", Important("1")) ]
    ELSE s

\* setInterval returns an id no live interval has.
FreshInterval(live) ==
    CHOOSE k \in 1..(Cardinality(live) + 1) :
        k \notin live /\ \A j \in 1..(k - 1) : j \in live

Min(a, b) == IF a < b THEN a ELSE b

\* startTutorialSteps(validSteps)
startTutorialSteps(s, validSteps) ==
    LET s0 == [ s EXCEPT !.cachedValidSteps = validSteps,
                         !.isInTutorial = TRUE ]
        s1 == IF currentPage = "chara_manager" /\ ".container" \in present
              THEN StyleIfPresent(
                     [ s0 EXCEPT !.saved.originalContainerMargin =
                                     Inline(s0, ".container", "marginTop") ],
                     ".container", "marginTop", "0")
              ELSE s0
        s2 == StyleIfPresent(s1, "#chat-container", "pointerEvents", "none")
        s3 == StyleIfPresent(s2, "#live2d-canvas", "pointerEvents", "none")
        s4 == IF "#live2d-container" \in present
              THEN StyleIfPresent(StyleIfPresent(
                     [ s3 EXCEPT !.saved.originalLive2dStyle =
                         Triple(Inline(s3, "#live2d-container", "left"),
                                Inline(s3, "#live2d-container", "right"),
                                Inline(s3, "#live2d-container", "transform")) ],
                     "#live2d-container", "left", "auto"),
                     "#live2d-container", "right", "0")
              ELSE s3
        s5 == IF "#live2d-floating-buttons" \in present
              THEN ForceShown(
                     [ s4 EXCEPT !.saved.floatingButtonsOriginalStyles =
                         Triple(Inline(s4, "#live2d-floating-buttons", "display"),
                                Inline(s4, "#live2d-floating-buttons", "visibility"),
                                Inline(s4, "#live2d-floating-buttons", "opacity")) ],
                     "#live2d-floating-buttons", "flex")
              ELSE s4
        hasLockIconStep == "#live2d-lock-icon" \in Selectors(validSteps)
        s6 == IF hasLockIconStep /\ "#live2d-lock-icon" \in present
              THEN ForceShown(
                     [ s5 EXCEPT !.saved.lockIconOriginalStyles =
                         Triple(Inline(s5, "#live2d-lock-icon", "display"),
                                Inline(s5, "#live2d-lock-icon", "visibility"),
                                Inline(s5, "#live2d-lock-icon", "opacity")) ],
                     "#live2d-lock-icon", "block")
              ELSE s5
        id == FreshInterval(s6.liveIntervals)
        s7 == [ s6 EXCEPT !.protectionTimer = id,
                          !.liveIntervals = @ \cup { id },
                          !.sinceTick = 0 ]
        s8 == IF currentPage \in { "settings", "memory_browser" }
              THEN StyleIfPresent(
                     [ s7 EXCEPT !.saved.originalBodyOverflow =
                                     Inline(s7, "body", "overflow") ],
                     "body", "overflow", "hidden")
              ELSE s7
    IN  [ s8 EXCEPT !.driver = [ active |-> TRUE,
                                 listeners |-> Min(@.listeners + 1, MaxListeners),
                                 currentStep |-> Followed(1),
                                 nextDisabled |-> FALSE,
                                 steps |-> validSteps ] ]

\* showFullscreenPrompt(validSteps): the overlay is on display; its button's
\* handler holds validSteps.
showFullscreenPrompt(s, validSteps) == [ s EXCEPT !.prompts = @ + 1 ]

\* startTutorial without its reentrancy guard: C1 must fail with it.
NeverRunning(s) == FALSE

\* The reentrancy guard of startTutorial.
AlreadyRunning(s) == s.isTutorialRunning

\* A length test that never finds a list empty: C13 must fail with it.
NeverEmpty(list) == FALSE

\* steps.length === 0 and validSteps.length === 0
IsEmpty(list) == Len(list) = 0

\* startTutorial()
startTutorial(s) ==
    IF ~s.isInitialized THEN [ s EXCEPT !.lastWarn = "notInitialized" ]
    ELSE IF AlreadyRunning(s) THEN [ s EXCEPT !.lastWarn = "alreadyRunning" ]
    ELSE LET g == getStepsForPage(s) IN
         IF IsEmpty(g.steps) THEN [ g.s EXCEPT !.lastWarn = "noSteps" ]
         ELSE LET f == FilterFrom([ g.s EXCEPT !.preStart = g.s.dom ], g.steps, 1) IN
              IF IsEmpty(f.valid) THEN [ f.s EXCEPT !.lastWarn = "noValidSteps" ]
              ELSE LET r == [ f.s EXCEPT !.isTutorialRunning = TRUE,
                                         !.lastWarn = "" ] IN
                   IF currentPage \in pagesNeedingFullscreen
                   THEN showFullscreenPrompt(r, f.valid)
                   ELSE startTutorialSteps(r, f.valid)

---------------------------------------------------------------------------
(* Ending a tour.                                                          *)

\* exitFullscreenMode(): the call is logged, then the document is asked to
\* leave fullscreen, whether it is in fullscreen or not.
exitFullscreenMode(s) == [ s EXCEPT !.fullscreen = FALSE,
                                    !.lastWarn = "exitFullscreen" ]

\* onTutorialEnd: the lock icon's three properties are removed, then set again
\* from the saved values that are not empty.
RestoreLockIcon(s) ==
    IF ~s.saved.lockIconOriginalStyles.set THEN s
    ELSE LET o == s.saved.lockIconOriginalStyles
             e == "#live2d-lock-icon"
             r == IF e \in present
                  THEN [ s EXCEPT !.dom[e] =
                          SetStyle(SetStyle(SetStyle(@, "display", o.a),
                                            "visibility", o.b), "opacity", o.c) ]
                  ELSE s
         IN  [ r EXCEPT !.saved.lockIconOriginalStyles = NoTriple ]

\* onTutorialEnd: clearInterval of the handle the engine holds.
ClearProtectionTimer(s) ==
    IF s.protectionTimer # 0
    THEN [ s EXCEPT !.liveIntervals = @ \ { s.protectionTimer },
                    !.protectionTimer = 0 ]
    ELSE s

\* onTutorialEnd writing the sub-context's flag alone: C9 must fail with it.
MarkSeenPrimaryOnly(s) ==
    [ s EXCEPT !.storage = setItem(@, getStorageKey(modelType), "true") ]

\* onTutorialEnd: the seen flag of the context, and the shared one.
MarkSeen(s) ==
    LET st == setItem(s.storage, getStorageKey(modelType), "true")
    IN  [ s EXCEPT !.storage =
            IF currentPage = "model_manager"
            THEN setItem(st, STORAGE_KEY_PREFIX \o "model_manager_common", "true")
            ELSE st ]

\* onTutorialEnd: pointer-events of the chat panel and of the canvas.
RestorePointerEvents(s) ==
    StyleIfPresent(StyleIfPresent(s, "#chat-container", "pointerEvents", "auto"),
                   "#live2d-canvas", "pointerEvents", "auto")

\* The reference is dropped and the handlers stay attached.
ForgetsDragListeners(s) == [ s EXCEPT !.popoverDragListeners = FALSE ]

\* if (this._popoverDragListeners) { removeEventListener x 3; the reference
\* is cleared }: in enablePopoverDragging and in onTutorialEnd.
removeDragListeners(s) ==
    IF s.popoverDragListeners
    THEN [ s EXCEPT !.dragSets = @ - 1, !.popoverDragListeners = FALSE ]
    ELSE s

\* A clear that drops the flag and keeps the interval: C27 must fail with it.
ForgetsInterval(s) == [ s EXCEPT !.nextButtonGuardActive = FALSE ]

\* setNextButtonState(enabled): the popover's button, if there is a popover.
setNextButtonState(s, enabled) ==
    IF s.driver.active THEN [ s EXCEPT !.driver.nextDisabled = ~enabled ] ELSE s

\* clearNextButtonGuard(): the interval is cleared through its handle.
clearNextButtonGuard(s) ==
    LET c == [ s EXCEPT !.guardIntervals = IF s.nextButtonGuardTimer THEN @ - 1 ELSE @,
                        !.nextButtonGuardTimer = FALSE,
                        !.nextButtonGuardActive = FALSE ]
    IN  IF s.nextButtonGuardActive THEN setNextButtonState(c, TRUE) ELSE c

\* onTutorialEnd()
onTutorialEnd(s) ==
    LET s0 == clearNextButtonGuard([ s EXCEPT !.isTutorialRunning = FALSE ])
        s1 == IF currentPage \in pagesNeedingFullscreen
              THEN exitFullscreenMode(s0) ELSE s0
        s2 == IF /\ currentPage = "chara_manager"
                 /\ ".container" \in present
                 /\ s1.saved.originalContainerMargin # Undefined
              THEN StyleIfPresent(s1, ".container", "marginTop",
                                  s1.saved.originalContainerMargin)
              ELSE s1
        s3 == [ MarkSeen(s2) EXCEPT !.isInTutorial = FALSE ]
        s4 == IF currentPage \in { "settings", "memory_browser" }
              THEN [ StyleIfPresent(s3, "body", "overflow",
                        IF s3.saved.originalBodyOverflow = Undefined
                        THEN "" ELSE s3.saved.originalBodyOverflow)
                     EXCEPT !.saved.originalBodyOverflow = Undefined ]
              ELSE s3
        s5 == RestorePointerEvents(s4)
        o == s5.saved.originalLive2dStyle
        s6 == IF "#live2d-container" \in present /\ o.set
              THEN StyleIfPresent(StyleIfPresent(StyleIfPresent(s5,
                     "#live2d-container", "left", o.a),
                     "#live2d-container", "right", o.b),
                     "#live2d-container", "transform", o.c)
              ELSE s5
        s7 == RestoreLockIcon(ClearProtectionTimer(s6))
        s8 == removeDragListeners(s7)
    IN  restoreAllModifiedElements(s8)

\* The renderer calls every listener registered with on('destroy', ..).
RECURSIVE EndTimes(_, _)
EndTimes(s, n) == IF n = 0 THEN s ELSE EndTimes(onTutorialEnd(s), n - 1)

\* A hook that forgets to store the hint flag: C17 must fail with it.
ForgetsHint(s) == [ s EXCEPT !.shouldMarkHintShown = FALSE ]

\* The onDestroyStarted hook given to the renderer.
onDestroyStarted(s) ==
    IF s.shouldMarkHintShown
    THEN [ s EXCEPT !.storage = setItem(@, HintKey, "true"),
                    !.shouldMarkHintShown = FALSE ]
    ELSE s

\* driver.destroy(), and the user closing or finishing the tour: a renderer
\* that shows a tour tears it down and notifies; one that shows none does
\* nothing.
driverDestroy(s) ==
    IF s.driver.active
    THEN EndTimes([ onDestroyStarted(s) EXCEPT !.driver.active = FALSE,
                                               !.driver.steps = << >>,
                                               !.driver.currentStep = 0,
                                               !.driver.nextDisabled = FALSE ],
                  s.driver.listeners)
    ELSE s

---------------------------------------------------------------------------
(* Step transitions.                                                       *)

\* The selectors before which onStepChange calls _ensureCharaManagerExpanded.
needsAdvancedSettings(step) ==
    step.element \in { ".catgirl-block:first-child .fold-toggle",
                       ".catgirl-block:first-child .live2d-link",
                       ".catgirl-block:first-child select[name=voice_id]" }

\* steps.findIndex(step => step.element === el), counted from 1; 0 for -1
findIndex(steps, el) ==
    IF \E i \in DOMAIN steps : steps[i].element = el
    THEN CHOOSE i \in DOMAIN steps :
            /\ steps[i].element = el
            /\ \A j \in 1..(i - 1) : steps[j].element # el
    ELSE 0

\* onStepChange: the guard that holds the Next button back on the emotion
\* manager's first step.  updateNextState() runs once before the handle is
\* stored, so that call clears nothing.
StartNextButtonGuard(s, hasModel) ==
    [ setNextButtonState(s, hasModel) EXCEPT !.nextButtonGuardActive = TRUE,
                                             !.nextButtonGuardTimer = TRUE,
                                             !.guardIntervals = @ + 1 ]

\* onStepChange: whether one of the two redirects calls driver.showStep and
\* returns.  has is what the host answers to hasLive2DModelLoaded() or
\* hasEmotionManagerModelSelected().
\* The index the redirect hands to driver.showStep.
RedirectTarget(steps) ==
    findIndex(steps, IF currentPage = "model_manager"
                     THEN "#live2d-model-select-btn" ELSE "#model-select")

Redirects(steps, c, has) ==
    \/ /\ currentPage = "model_manager"
       /\ c.element = "#emotion-config-btn"
       /\ ~has
       /\ findIndex(steps, "#live2d-model-select-btn") > 0
    \/ /\ currentPage = "emotion_manager"
       /\ c.element = "#emotion-config"
       /\ ~has
       /\ findIndex(steps, "#model-select") > 0

\* onStepChange: the element of the step is looked up, shown if it is hidden,
\* and the step's click is put on its 300 ms timer.
ShowStepElement(s, c) ==
    IF c.element \notin present THEN s
    ELSE LET shown == IF ~isElementVisible(s, c.element) /\ ~c.skipAutoShow
                      THEN showElementForTutorial(s, c.element, c.element)
                      ELSE s
         IN  IF c.action = "click"
             THEN [ shown EXCEPT !.pendingClicks = @ + 1 ]
             ELSE shown

\* The list is derived again from the page's configuration.
RederivesSteps(s) == getStepsForPage(s)

\* this.cachedValidSteps || this.getStepsForPage(): the cached list once a
\* start has assigned it (the field is undefined before, the empty list here),
\* and with it the engine as the call leaves it.
StepsConsulted(s) ==
    IF s.cachedValidSteps # << >>
    THEN [ steps |-> s.cachedValidSteps, s |-> s ]
    ELSE getStepsForPage(s)

\* The canvas is closed to the pointer whatever the step says.
CanvasAlwaysClosed(c) == "none"

\* onStepChange: pointer-events of #live2d-canvas for the step's configuration.
canvasPointerEvents(c) == IF c.enableModelInteraction THEN "auto" ELSE "none"

\* onStepChange() with driver.currentStep = i - 1.  The timers that refresh
\* the renderer's highlight are the renderer's business.
onStepChange(s, i, has) ==
    LET g == StepsConsulted(s)
        steps == g.steps
    IN
    IF i > Len(steps) THEN g.s
    ELSE LET c == steps[i]
             s1 == clearNextButtonGuard(g.s)
             s2 == StyleIfPresent(s1, "#live2d-canvas", "pointerEvents",
                      canvasPointerEvents(c))
             s3 == IF currentPage = "emotion_manager" /\ c.element = "#model-select"
                   THEN StartNextButtonGuard(s2, has) ELSE s2
         IN  IF Redirects(steps, c, has)
             THEN [ s3 EXCEPT !.driver.currentStep = Followed(RedirectTarget(steps)) ]
             ELSE ShowStepElement(s3, c)

\* The auto-click timer: the click goes to the step's element, the settings
\* button, which is neither a fold toggle nor a card's expander.
autoClick(s) ==
    [ s EXCEPT !.pendingClicks = @ - 1, !.settingsPopup = ~@ ]

\* A poll that sets the button and keeps its interval: C25 must fail with it.
PollWithoutClear(s, hasModel) == setNextButtonState(s, hasModel)

\* updateNextState(), called by the guard interval.
updateNextState(s, hasModel) ==
    LET b == setNextButtonState(s, hasModel) IN
    IF hasModel /\ s.nextButtonGuardTimer
    THEN [ b EXCEPT !.guardIntervals = @ - 1, !.nextButtonGuardTimer = FALSE ]
    ELSE b

\* enablePopoverDragging(): the popover is in the document while the renderer
\* shows a tour.
enablePopoverDragging(s) ==
    IF s.driver.active
    THEN [ removeDragListeners(s) EXCEPT !.dragSets = @ + 1,
                                         !.popoverDragListeners = TRUE ]
    ELSE s

---------------------------------------------------------------------------
(* Restarting.                                                             *)

\* Invocations of _ensureCharaManagerExpanded that run at once.
MaxExpanders == 2

\* An invocation slot that is free: no timer pending.
NoExpander == [ phase |-> "idle", attempts |-> 0, clickedToggle |-> FALSE ]

\* No readiness wait is followed.
NoWait == [ elapsed |-> 0, result |-> "none" ]

\* waitForFloatingButtons(): what the promise resolves to.  The document does
\* not change while the engine waits, so the first poll finds the toolbar or
\* the 3 s run out.
waitForFloatingButtons == "#live2d-floating-buttons" \in present

\* waitForCatgirlCards(): likewise, with its 5 s.
waitForCatgirlCards == CatgirlCards \subseteq present

\* The result of the wait checkAndStartTutorial chains its start on; the other
\* pages wait for nothing.
ReadinessWait ==
    CASE currentPage = "home" -> waitForFloatingButtons
      [] currentPage = "chara_manager" -> waitForCatgirlCards
      [] OTHER -> TRUE

\* Whether the callback chained on the wait sets the start timer, given what
\* the wait resolved to: the callbacks take no argument.
AutoStartAfterWait(ready) == TRUE

\* setupModelTypeChangeListener(): #model-type-select is part of the model
\* manager page; dataset.tutorialListenerAdded is set with the first listener.
setupModelTypeChangeListener(s) ==
    IF s.typeListeners > 0 THEN s ELSE [ s EXCEPT !.typeListeners = @ + 1 ]

\* checkAndStartTutorial(): the readiness waits and the delay end in one
\* startTutorial() call.
checkAndStartTutorial(s) ==
    LET c == IF ~Truthy(s.storage[getStorageKey(modelType)])
                /\ AutoStartAfterWait(ReadinessWait)
             THEN [ s EXCEPT !.pendingAutoStarts = @ + 1 ] ELSE s
    IN  IF currentPage = "model_manager" THEN setupModelTypeChangeListener(c) ELSE c

\* The 500 ms callback of the change listener.
modelTypeChanged(s) ==
    IF ~Truthy(s.storage[getStorageKey(modelType)])
    THEN [ s EXCEPT !.pendingAutoStarts = @ + 1 ]
    ELSE s

\* restartTutorial()
restartTutorial(s) ==
    startTutorial(driverDestroy(
        [ s EXCEPT !.storage =
            removeItems(@, Range(getStorageKeysForPage(currentPage))) ]))

\* initDriver(): a new renderer instance, then the automatic start.
initDriver(s) ==
    IF s.isInitialized THEN s
    ELSE checkAndStartTutorial([ s EXCEPT !.driver = NewDriver,
                                          !.isInitialized = TRUE ])

\* waitForDriver(): initDriver at once when window.driver is there; if not,
\* the first checkDriver() call counts one attempt and sets the 100 ms timer.
waitForDriver(s) ==
    IF s.windowDriver THEN initDriver(s) ELSE [ s EXCEPT !.attempts = 1 ]

\* checkDriver() called by its timer.
checkDriver(s) ==
    IF s.windowDriver THEN [ initDriver(s) EXCEPT !.attempts = 0 ]
    ELSE IF s.attempts + 1 >= maxAttempts
         THEN [ s EXCEPT !.attempts = 0, !.errors = @ + 1 ]
         ELSE [ s EXCEPT !.attempts = @ + 1 ]

\* restartCurrentTutorial()
restartCurrentTutorial(s) ==
    LET d == [ driverDestroy(s) EXCEPT !.driver = NewDriver ]
        r == [ d EXCEPT !.storage = removeItems(@, { getStorageKey(modelType) }),
                        !.isInitialized = FALSE,
                        !.isTutorialRunning = FALSE ]
    IN  waitForDriver(r)

\* One tick of the protection interval.
protectionTick(s) ==
    LET s1 == IF s.isInTutorial
              THEN ForceShown(s, "#live2d-floating-buttons", "flex") ELSE s
    IN  IF s1.saved.lockIconOriginalStyles.set /\ s1.isInTutorial
        THEN ForceShown(s1, "#live2d-lock-icon", "block")
        ELSE s1

---------------------------------------------------------------------------
(* Initial states: the page as the host rendered it, the storage as earlier *)
(* sessions left it, and the engine after its constructor ran: with         *)
(* window.driver loaded, initDriver and checkAndStartTutorial done; without *)
(* it, the first poll done.                                                *)

StyleProfiles == { "plain", "empty", "styled", "inlineHidden", "sheetHidden",
                   "zeroSize" }

StyledDecl ==
    [ p \in StyleProps |->
        CASE p = "display" -> "block" [] p = "visibility" -> "visible"
          [] p = "opacity" -> "1" [] p = "pointerEvents" -> "auto"
          [] p = "left" -> "10px" [] p = "right" -> "20px"
          [] p = "transform" -> "scale(1)" [] p = "marginTop" -> "20px"
          [] p = "overflow" -> "auto" [] OTHER -> "red" ]

HiddenDecl ==
    [ NoDecl EXCEPT !["display"] = "none", !["visibility"] = "hidden",
                    !["opacity"] = "0" ]

ProfileStyle(prof) ==
    CASE prof = "plain" -> NoStyle
      [] prof = "empty" -> EmptyStyle
      [] prof = "styled" -> [ attr |-> TRUE, decl |-> StyledDecl ]
      [] prof \in { "inlineHidden", "svgToolbar" } -> [ attr |-> TRUE, decl |-> HiddenDecl ]
      [] OTHER -> NoStyle

ProfileSheet(prof) ==
    [ display |-> IF prof \in { "sheetHidden", "empty" } THEN "none" ELSE "block",
      visibility |-> "visible", opacity |-> "1",
      zeroSize |-> (prof = "zeroSize"),
      autoHide |-> (prof = "autoHide"),
      readOnlyClass |-> FALSE ]

\* The style sheet and the kind of one element: in the profile svgToolbar the
\* toolbar is an SVG element, whose className cannot be assigned.
ElementSheet(prof, e) ==
    [ ProfileSheet(prof) EXCEPT
        !.readOnlyClass = (prof = "svgToolbar" /\ e = "#live2d-floating-buttons") ]

StoredValues == { "true", "1" }

NoStorage == [ k \in StorageKeys |-> Unset ]

AllSeen == [ k \in StorageKeys |-> "true" ]

\* What earlier sessions left in localStorage: nothing, every flag, one value
\* under one of the page's own keys, or the hint flag alone.
StorageProfiles(page) ==
    { NoStorage, AllSeen, [ NoStorage EXCEPT ![HintKey] = "true" ] } \cup
    { [ NoStorage EXCEPT ![k] = v ] :
        k \in Range(getStorageKeysForPage(page)), v \in StoredValues }

\* What the document lacks: nothing, one target, or every target of the page.
MissingChoices(page) ==
    { {}, PageTargets(page) } \cup { { e } : e \in PageTargets(page) \ PlainTargets }

\* The home page is also explored with a host that hides its idle widgets and
\* with a toolbar that is an SVG element.
HomeOnly(page) == IF page = "home" THEN { page } ELSE {}

\* The pages that show the fullscreen prompt are explored from two initial
\* states, the page rendered and the page without its cards and targets: the
\* prompt's listener and timers multiply what follows from each.
InitChoices(page) ==
    IF page \in pagesNeedingFullscreen
    THEN { [ prof |-> "plain", st |-> NoStorage, missing |-> {} ],
           [ prof |-> "plain", st |-> NoStorage,
             missing |-> PageTargets(page) \cup CatgirlCards ] }
    ELSE { [ prof |-> "plain", st |-> NoStorage, missing |-> {} ] } \cup
         { [ prof |-> "autoHide", st |-> NoStorage, missing |-> {} ] : p \in HomeOnly(page) } \cup
         { [ prof |-> "svgToolbar", st |-> NoStorage, missing |-> {} ] : p \in HomeOnly(page) } \cup
         { [ prof |-> p, st |-> NoStorage, missing |-> {} ] : p \in StyleProfiles } \cup
         { [ prof |-> "plain", st |-> s, missing |-> {} ] : s \in StorageProfiles(page) } \cup
         { [ prof |-> "plain", st |-> NoStorage, missing |-> m ] : m \in MissingChoices(page) }

\* Whether the renderer's script is loaded when the constructor runs.  The
\* engine without it is explored on two pages, from the plain page with no
\* flag or every flag stored.
DriverChoices(page, c) ==
    IF /\ page \in { "home", "settings" }
       /\ c.prof = "plain" /\ c.missing = {}
       /\ c.st \in { NoStorage, AllSeen }
    THEN BOOLEAN ELSE { TRUE }

ModelTypes(page) == IF page = "model_manager" THEN { "Live2D", "VRM" } ELSE { "Live2D" }

InitAt(paths) ==
    \E p \in paths :
    \E page \in { detectPage(p) } :
    \E c \in InitChoices(page), mt \in ModelTypes(page) :
    \E wd \in DriverChoices(page, c) :
    LET prof == c.prof
        st == c.st
        missing == c.missing
    IN  /\ path = p
        /\ currentPage = page
        /\ modelType = mt
        /\ storage = st
        /\ dom = [ e \in Styled(page) |->
                    [ style |-> ProfileStyle(prof), className |-> "card",
                      inTutorial |-> FALSE ] ]
        /\ sheet = [ e \in Styled(page) |-> ElementSheet(prof, e) ]
        /\ present = Rendered(page) \ missing
        /\ pendingClicks = 0
        /\ sinceTick = 0
        /\ sinceHide = 0
        /\ settingsPopup = FALSE
        /\ nextButtonGuardTimer = FALSE
        /\ nextButtonGuardActive = FALSE
        /\ guardIntervals = 0
        /\ windowDriver = wd
        /\ attempts = (IF wd THEN 0 ELSE 1)
        /\ errors = 0
        /\ isInitialized = wd
        /\ isTutorialRunning = FALSE
        /\ isInTutorial = FALSE
        /\ shouldMarkHintShown = FALSE
        /\ cachedValidSteps = << >>
        /\ modifiedElementsMap = [ e \in Styled(page) |-> NoRecord ]
        /\ saved = NoSaves
        /\ protectionTimer = 0
        /\ liveIntervals = {}
        /\ popoverDragListeners = FALSE
        /\ driver = NewDriver
        /\ prompts = 0
        /\ fsClosures = [ lf |-> 0, f |-> 0, l |-> 0 ]
        /\ pendingStepStarts = 0
        /\ fullscreen = FALSE
        /\ fsRequested = FALSE
        /\ pendingAutoStarts =
             (IF ~wd THEN 0
              ELSE IF page = "model_manager"
              THEN IF Truthy(st[STORAGE_KEY_PREFIX \o
                        (IF isVRM(mt) THEN "model_manager_vrm" ELSE "model_manager_live2d")])
                   THEN 0 ELSE 1
              ELSE IF Truthy(st[STORAGE_KEY_PREFIX \o page]) THEN 0 ELSE 1)
        /\ pendingTypeChecks = 0
        /\ lastWarn = ""
        /\ preStart = dom
        /\ modelSelected = FALSE
        /\ typeListeners = (IF wd /\ page = "model_manager" THEN 1 ELSE 0)
        /\ pendingStartFor = ""
        /\ wait = NoWait
        /\ dragSets = 0
        /\ ui = [ card |-> IF ".catgirl-block:first-child" \in present
                           THEN "collapsed" ELSE "missing",
                  fold |-> "closed" ]
        /\ expanders = [ i \in 1..MaxExpanders |-> NoExpander ]

\* Every page under its own path.
Init == InitAt(PagePaths)

---------------------------------------------------------------------------
(* Actions.                                                                *)

Bounded(n) ==
    /\ Cardinality(n.liveIntervals) <= MaxIntervals
    /\ n.prompts + fsClosures.lf + fsClosures.f + fsClosures.l <= MaxPrompts
    /\ n.pendingAutoStarts <= MaxPending
    /\ n.errors <= MaxReports
    /\ n.pendingClicks <= MaxPending
    /\ n.guardIntervals <= MaxIntervals
    /\ n.dragSets <= MaxListeners

\* The state after a handler returned n.
Install(n) ==
    /\ Bounded(n)
    /\ storage' = n.storage
    /\ dom' = n.dom
    /\ isInitialized' = n.isInitialized
    /\ isTutorialRunning' = n.isTutorialRunning
    /\ isInTutorial' = n.isInTutorial
    /\ shouldMarkHintShown' = n.shouldMarkHintShown
    /\ cachedValidSteps' = n.cachedValidSteps
    /\ modifiedElementsMap' = n.modifiedElementsMap
    /\ saved' = n.saved
    /\ protectionTimer' = n.protectionTimer
    /\ liveIntervals' = n.liveIntervals
    /\ popoverDragListeners' = n.popoverDragListeners
    /\ driver' = n.driver
    /\ prompts' = n.prompts
    /\ fullscreen' = n.fullscreen
    /\ fsRequested' = n.fsRequested
    /\ pendingAutoStarts' = n.pendingAutoStarts
    /\ pendingClicks' = n.pendingClicks
    /\ sinceTick' = n.sinceTick
    /\ sinceHide' = n.sinceHide
    /\ settingsPopup' = n.settingsPopup
    /\ nextButtonGuardTimer' = n.nextButtonGuardTimer
    /\ nextButtonGuardActive' = n.nextButtonGuardActive
    /\ guardIntervals' = n.guardIntervals
    /\ windowDriver' = n.windowDriver
    /\ attempts' = n.attempts
    /\ errors' = n.errors
    /\ preStart' = n.preStart
    /\ lastWarn' = n.lastWarn
    /\ typeListeners' = n.typeListeners
    /\ dragSets' = n.dragSets
    /\ pendingStartFor' = n.pendingStartFor
    /\ UNCHANGED << path, currentPage, sheet, present, modelSelected, wait, ui,
                    expanders >>

\* The host calls startTutorial().
HostStartTutorial ==
    /\ Install(startTutorial(S))
    /\ UNCHANGED << modelType, fsClosures, pendingStepStarts, pendingTypeChecks >>

\* A setTimeout(() => this.startTutorial(), ..) fires.
AutoStartTimer ==
    /\ pendingAutoStarts > 0
    /\ Install(startTutorial([ S EXCEPT !.pendingAutoStarts = @ - 1,
                                        !.pendingStartFor = "" ]))
    /\ UNCHANGED << modelType, fsClosures, pendingStepStarts, pendingTypeChecks >>

\* The user closes the tour or finishes its last step.
RendererDestroy ==
    /\ driver.active
    /\ Install(driverDestroy(S))
    /\ UNCHANGED << modelType, fsClosures, pendingStepStarts, pendingTypeChecks >>

RestartTutorial ==
    /\ Install(restartTutorial(S))
    /\ UNCHANGED << modelType, fsClosures, pendingStepStarts, pendingTypeChecks >>

\* One poll chain is followed: the host restarts when none is pending.
RestartCurrentTutorial ==
    /\ attempts = 0
    /\ Install(restartCurrentTutorial(S))
    /\ UNCHANGED << modelType, fsClosures, pendingStepStarts, pendingTypeChecks >>

\* The page names the host's reset control passes: the page it is on, one
\* other page, or 'all'.
ResetTargets ==
    (IF currentPage = "model_manager"
     THEN { "model_manager", "model_manager_live2d", "model_manager_vrm" }
     ELSE { currentPage })
    \cup { IF currentPage = "settings" THEN "home" ELSE "settings" }
    \cup { "all" }

ResetPageTutorial ==
    \E n \in { resetPageTutorial(S, pageKey) : pageKey \in ResetTargets } :
        /\ Install(n)
        /\ UNCHANGED << modelType, fsClosures, pendingStepStarts, pendingTypeChecks >>

ResetAllTutorials ==
    /\ Install(resetAllTutorials(S))
    /\ UNCHANGED << modelType, fsClosures, pendingStepStarts, pendingTypeChecks >>

\* fullscreenBtn.onclick: the overlay goes, fullscreen is requested, the
\* change listener and the 2 s fallback are installed.
AcceptPrompt ==
    /\ prompts > 0
    /\ Install([ S EXCEPT !.prompts = @ - 1, !.fsRequested = TRUE ])
    /\ fsClosures' = [ fsClosures EXCEPT !.lf = @ + 1 ]
    /\ UNCHANGED << modelType, pendingStepStarts, pendingTypeChecks >>

\* The browser grants the request: every registered onFullscreenChange sees
\* fullscreen engaged, starts its chain and removes itself.
FullscreenEnter ==
    /\ fsRequested /\ ~fullscreen
    /\ pendingStepStarts + fsClosures.lf + fsClosures.l <= MaxPending
    /\ Install([ S EXCEPT !.fullscreen = TRUE, !.fsRequested = FALSE ])
    /\ pendingStepStarts' = pendingStepStarts + fsClosures.lf + fsClosures.l
    /\ fsClosures' = [ lf |-> 0, f |-> fsClosures.f + fsClosures.lf, l |-> 0 ]
    /\ UNCHANGED << modelType, pendingTypeChecks >>

\* The browser refuses the request.
FullscreenDenied ==
    /\ fsRequested
    /\ Install([ S EXCEPT !.fsRequested = FALSE ])
    /\ UNCHANGED << modelType, fsClosures, pendingStepStarts, pendingTypeChecks >>

\* The user leaves fullscreen: the listeners run and find nothing to do.
FullscreenExit ==
    /\ fullscreen
    /\ Install([ S EXCEPT !.fullscreen = FALSE ])
    /\ UNCHANGED << modelType, fsClosures, pendingStepStarts, pendingTypeChecks >>

\* The 2 s fallback of a prompt whose listener is still registered.
FallbackFire ==
    /\ fsClosures.lf > 0
    /\ Install(S)
    /\ IF ~fullscreen
       THEN /\ pendingStepStarts < MaxPending
            /\ pendingStepStarts' = pendingStepStarts + 1
            /\ fsClosures' = [ fsClosures EXCEPT !.lf = @ - 1 ]
       ELSE /\ pendingStepStarts' = pendingStepStarts
            /\ fsClosures' = [ fsClosures EXCEPT !.lf = @ - 1, !.l = @ + 1 ]
    /\ UNCHANGED << modelType, pendingTypeChecks >>

\* The 2 s fallback of a prompt whose listener already ran.
FallbackFireAfterChange ==
    /\ fsClosures.f > 0
    /\ Install(S)
    /\ IF ~fullscreen
       THEN /\ pendingStepStarts < MaxPending
            /\ pendingStepStarts' = pendingStepStarts + 1
       ELSE pendingStepStarts' = pendingStepStarts
    /\ fsClosures' = [ fsClosures EXCEPT !.f = @ - 1 ]
    /\ UNCHANGED << modelType, pendingTypeChecks >>

\* The validSteps a prompt's handler holds: the steps of the page's list that
\* startTutorial's filter kept when the prompt was shown.
PromptValidSteps == SelectSeq(configs(currentPage, modelType), KeepsStep)

\* A chain started by the listener or by the fallback reaches
\* this.startTutorialSteps(validSteps).
StepStartChain ==
    /\ pendingStepStarts > 0
    /\ \E n \in { startTutorialSteps(S, PromptValidSteps) } : Install(n)
    /\ pendingStepStarts' = pendingStepStarts - 1
    /\ UNCHANGED << modelType, fsClosures, pendingTypeChecks >>

\* The user switches the model type on the model manager page; the change
\* listener is there once checkAndStartTutorial has run.
ModelTypeChange ==
    /\ currentPage = "model_manager"
    /\ pendingTypeChecks < MaxPending
    /\ Install(S)
    /\ modelType' = IF modelType = "VRM" THEN "Live2D" ELSE "VRM"
    /\ pendingTypeChecks' = IF typeListeners > 0 THEN pendingTypeChecks + 1
                                                  ELSE pendingTypeChecks
    /\ UNCHANGED << fsClosures, pendingStepStarts >>

\* The change listener's 500 ms timer.
TypeCheckTimer ==
    /\ pendingTypeChecks > 0
    /\ Install(modelTypeChanged(S))
    /\ pendingTypeChecks' = pendingTypeChecks - 1
    /\ UNCHANGED << modelType, fsClosures, pendingStepStarts >>

\* waitForDriver's 100 ms timer.
PollDriver ==
    /\ attempts > 0
    /\ Install(checkDriver(S))
    /\ UNCHANGED << modelType, fsClosures, pendingStepStarts, pendingTypeChecks >>

\* The renderer's script finishes loading while the constructor's polls run.
DriverScriptLoads ==
    /\ ~windowDriver /\ attempts > 0 /\ errors = 0
    /\ Install([ S EXCEPT !.windowDriver = TRUE ])
    /\ UNCHANGED << modelType, fsClosures, pendingStepStarts, pendingTypeChecks >>

\* The protection interval ticks.
ProtectionTick ==
    /\ liveIntervals # {}
    /\ Install(protectionTick(S))
    /\ UNCHANGED << modelType, fsClosures, pendingStepStarts, pendingTypeChecks >>

\* onHighlighted's 100 ms timer and onStepChange's 200 ms timer:
\* enablePopoverDragging() finds the popover.
HighlightedTimer ==
    /\ driver.active
    /\ Install(enablePopoverDragging(S))
    /\ UNCHANGED << modelType, fsClosures, pendingStepStarts, pendingTypeChecks >>

\* The renderer emits 'next': every listener registered with on('next', ..)
\* runs onStepChange.
RECURSIVE StepChanges(_, _, _, _)
StepChanges(s, i, has, n) ==
    IF n = 0 THEN s ELSE StepChanges(onStepChange(s, i, has), i, has, n - 1)

\* hasEmotionManagerModelSelected()
hasEmotionManagerModelSelected ==
    "#model-select" \in present /\ modelSelected

\* What onStepChange learns when it asks for the host's model: the value of
\* #model-select, or on model_manager what live2dManager.getCurrentModel()
\* answers.
HostModelAnswers ==
    IF currentPage = "model_manager" THEN BOOLEAN
    ELSE { hasEmotionManagerModelSelected }

\* The user picks a model in #model-select, or picks the empty entry again.
HostSelectsModel ==
    /\ currentPage = "emotion_manager"
    /\ "#model-select" \in present
    /\ modelSelected' = ~modelSelected
    /\ UNCHANGED << path, currentPage, modelType, storage, dom, sheet, present,
                    isInitialized, isTutorialRunning, isInTutorial,
                    shouldMarkHintShown, cachedValidSteps, modifiedElementsMap,
                    saved, protectionTimer, liveIntervals, popoverDragListeners,
                    driver, prompts, fsClosures, pendingStepStarts, fullscreen,
                    fsRequested, pendingAutoStarts, pendingTypeChecks,
                    pendingClicks, settingsPopup, nextButtonGuardTimer,
                    nextButtonGuardActive, guardIntervals, sinceTick, sinceHide,
                    windowDriver, attempts, errors, lastWarn, preStart,
                    typeListeners, pendingStartFor, wait, ui, expanders,
                    dragSets >>

\* The renderer shows step i and emits 'next'.
StepChange ==
    /\ driver.active
    /\ \E n \in { StepChanges([ S EXCEPT !.driver.currentStep = Followed(i) ], i,
                                has, driver.listeners) :
                     i \in 1..Len(cachedValidSteps),
                     has \in HostModelAnswers } : Install(n)
    /\ UNCHANGED << modelType, fsClosures, pendingStepStarts, pendingTypeChecks >>

\* The auto-click timer fires.
AutoClickTimer ==
    /\ pendingClicks > 0
    /\ Install(autoClick(S))
    /\ UNCHANGED << modelType, fsClosures, pendingStepStarts, pendingTypeChecks >>

\* The guard interval ticks.
GuardPoll ==
    /\ guardIntervals > 0
    /\ Install(updateNextState(S, hasEmotionManagerModelSelected))
    /\ UNCHANGED << modelType, fsClosures, pendingStepStarts, pendingTypeChecks >>

\* How many overrides of one element a run is followed through.
MaxOverrides == 2

\* The widget of the home page the host hides when it is idle, one of those
\* the protection interval keeps on display.
HostHideable == { "#live2d-lock-icon" }

\* The host hides one of them while a tour is on display.
HostHides ==
    /\ driver.active
    /\ \E e \in HostHideable \cap present \cap DOMAIN dom :
           /\ sheet[e].autoHide
           /\ dom[e].style.decl["display"] # "none"
           /\ Len(modifiedElementsMap[e].modifiedProperties) < MaxOverrides
           /\ Install([ S EXCEPT !.dom[e] = SetStyle(@, "display", "none") ])
    /\ UNCHANGED << modelType, fsClosures, pendingStepStarts, pendingTypeChecks >>

Next ==
    \/ HostStartTutorial
    \/ AutoStartTimer
    \/ RendererDestroy
    \/ HostSelectsModel
    \/ RestartTutorial
    \/ RestartCurrentTutorial
    \/ ResetPageTutorial
    \/ ResetAllTutorials
    \/ AcceptPrompt
    \/ FullscreenEnter
    \/ FullscreenDenied
    \/ FullscreenExit
    \/ FallbackFire
    \/ FallbackFireAfterChange
    \/ StepStartChain
    \/ ModelTypeChange
    \/ TypeCheckTimer
    \/ PollDriver
    \/ DriverScriptLoads
    \/ ProtectionTick
    \/ HighlightedTimer
    \/ StepChange
    \/ AutoClickTimer
    \/ GuardPoll
    \/ HostHides

Spec == Init /\ [][Next]_vars
---------------------------------------------------------------------------
(* Properties.                                                             *)

\* The state a handler returned, without the warning it logged.
Silent(s) == [ s EXCEPT !.lastWarn = "" ]

\* C1: calling startTutorial() while isTutorialRunning is true is a no-op: in
\* every reachable state with the flag set, the call leaves the storage, the
\* page, every engine field, the renderer, the prompts and the pending timers
\* as they are (nothing is derived, shown, started or queued).
C1_StartWhileRunningIsNoOp ==
    isTutorialRunning => Silent(startTutorial(S)) = S

\* A tour is on display and a startTutorial() call was just rejected.
C1_Witness ==
    /\ isTutorialRunning
    /\ driver.active
    /\ lastWarn = "alreadyRunning"

\* C2: startTutorialSteps is never executed a second time before the
\* onTutorialEnd of its previous execution. startTutorialSteps sets
\* window.isInTutorial and onTutorialEnd clears it, and every execution of
\* startTutorialSteps installs one more protection interval: a step that adds
\* an interval starts from a state in which no run is installed.
C2_OneRunAtATime ==
    [][ Cardinality(liveIntervals') > Cardinality(liveIntervals)
            => ~isInTutorial ]_vars

\* C3: after onTutorialEnd, however the run ended, isTutorialRunning and
\* window.isInTutorial are false, the protection interval's handle is null and
\* no protection interval is live, modifiedElementsMap is empty and
\* _popoverDragListeners is cleared.
C3_CompleteRestoration ==
    driver.active =>
        LET e == driverDestroy(S) IN
            /\ ~e.isTutorialRunning
            /\ ~e.isInTutorial
            /\ e.protectionTimer = 0
            /\ e.liveIntervals = {}
            /\ \A x \in DOMAIN e.modifiedElementsMap : ~e.modifiedElementsMap[x].has
            /\ ~e.popoverDragListeners

\* The inline values startTutorialSteps overrides on the current page.
OverriddenAtStart ==
    { << "#chat-container", "pointerEvents" >>, << "#live2d-canvas", "pointerEvents" >>,
      << "#live2d-container", "left" >>, << "#live2d-container", "right" >>,
      << "#live2d-container", "transform" >> }
    \cup (IF currentPage = "chara_manager" THEN { << ".container", "marginTop" >> } ELSE {})
    \cup (IF currentPage \in { "settings", "memory_browser" }
          THEN { << "body", "overflow" >> } ELSE {})

\* C4: every inline value overridden at tour start is, after onTutorialEnd,
\* equal to the value it had before the run (preStart: validation, the only
\* thing between that moment and startTutorialSteps, writes none of these
\* properties), the absent value included.
C4_ExactPriorValue ==
    driver.active =>
        \A pr \in OverriddenAtStart :
            pr[1] \in present =>
                driverDestroy(S).dom[pr[1]].style.decl[pr[2]]
                    = preStart[pr[1]].style.decl[pr[2]]

\* C5: after onTutorialEnd the inline display, visibility and opacity of
\* #live2d-floating-buttons and of #live2d-lock-icon equal their values before
\* the run, tracked in modifiedElementsMap or not.
C5_NoResidueOnProtected ==
    driver.active =>
        \A e \in { "#live2d-floating-buttons", "#live2d-lock-icon" } \cap present :
            \A p \in Range(HidingProps) :
                driverDestroy(S).dom[e].style.decl[p] = preStart[e].style.decl[p]

\* C6: for an element the map does not track, whatever its style attribute
\* (absent, empty, with declarations) and class list, showElementForTutorial
\* once or twice followed by restoreAllModifiedElements leaves the style
\* attribute, the class list and the inTutorial marker as they were.
C6_RoundTrip ==
    \A e \in present \cap Styled(currentPage) :
        (~modifiedElementsMap[e].has /\ ~dom[e].inTutorial) =>
            LET once == showElementForTutorial(S, e, e)
                twice == showElementForTutorial(once, e, e)
            IN  /\ restoreAllModifiedElements(once).dom[e] = dom[e]
                /\ restoreAllModifiedElements(twice).dom[e] = dom[e]

\* C7: an element is tracked in modifiedElementsMap only if the engine forced
\* at least one of display, visibility and opacity on it: a call of
\* showElementForTutorial on an element none of the three hides (one of size
\* zero, say) leaves no entry.
C7_TrackedOnlyIfForced ==
    \A e \in DOMAIN modifiedElementsMap :
        modifiedElementsMap[e].has => modifiedElementsMap[e].modifiedProperties # << >>

\* The context of the run on display: the page, and on model_manager the
\* sub-context whose step list the run validated and shows.
RunContext ==
    IF currentPage # "model_manager" THEN currentPage
    ELSE IF Selectors(cachedValidSteps) \subseteq Selectors(vrmSteps)
         THEN "model_manager_vrm" ELSE "model_manager_live2d"

\* C8: if hasSeenTutorial(C) is false for the context C of a run, then after
\* the run ends through the renderer's destroy notification hasSeenTutorial(C)
\* is true, the primary key of C holding a truthy marker, and after
\* resetPageTutorial(C) it is false again.
C8_SeenAfterRunUnseenAfterReset ==
    (driver.active /\ ~hasSeenTutorial(storage, RunContext)) =>
        LET e == driverDestroy(S)
            r == resetPageTutorial(e, RunContext)
        IN  /\ hasSeenTutorial(e.storage, RunContext)
            /\ Truthy(e.storage[STORAGE_KEY_PREFIX \o RunContext])
            /\ ~hasSeenTutorial(r.storage, RunContext)

\* The four alias keys of model_manager, as literals.
AliasKeysOfModelManager ==
    { "neko_tutorial_model_manager", "neko_tutorial_model_manager_live2d",
      "neko_tutorial_model_manager_vrm", "neko_tutorial_model_manager_common" }

\* C9: on model_manager the end of a run sets the key of the sub-context on
\* display and the shared common key; hasSeenTutorial('model_manager') is true
\* exactly when one of the four alias keys holds 'true'; resetAllTutorials and
\* resetPageTutorial('all') leave every alias key of every page unset.
C9_AliasSemantics ==
    /\ (currentPage = "model_manager" /\ driver.active) =>
           LET st == driverDestroy(S).storage IN
               /\ st[IF modelType = "VRM" THEN "neko_tutorial_model_manager_vrm"
                                          ELSE "neko_tutorial_model_manager_live2d"] = "true"
               /\ st["neko_tutorial_model_manager_common"] = "true"
    /\ hasSeenTutorial(storage, "model_manager")
           <=> \E k \in AliasKeysOfModelManager : storage[k] = "true"
    /\ LET all == resetAllTutorials(S).storage
           viaPage == resetPageTutorial(S, "all").storage
       IN  \A page \in Pages :
               \A k \in Range(getStorageKeysForPage(page)) :
                   all[k] = Unset /\ viaPage[k] = Unset

\* A model_manager run ended: the VRM flag and the common flag are set, the
\* legacy key is not, and the page counts as seen.
C9_Witness ==
    /\ currentPage = "model_manager"
    /\ cachedValidSteps # << >>
    /\ ~isInTutorial
    /\ storage["neko_tutorial_model_manager_vrm"] = "true"
    /\ storage["neko_tutorial_model_manager_common"] = "true"
    /\ storage["neko_tutorial_model_manager"] = Unset
    /\ hasSeenTutorial(storage, "model_manager")

\* C10: resetPageTutorial(C) for a single context C unsets the alias keys of C
\* and leaves every other key, the hint flag among them, as it is;
\* resetAllTutorials leaves the hint flag as it is.
C10_ResetFrame ==
    /\ \A pageKey \in ContextNames :
           LET after == resetPageTutorial(S, pageKey).storage
               own == Range(getStorageKeysForPage(pageKey))
           IN  \A k \in StorageKeys :
                   after[k] = IF k \in own THEN Unset ELSE storage[k]
    /\ resetAllTutorials(S).storage[HintKey] = storage[HintKey]

\* 'settings' was reset on the settings page: its flag is gone, the flag of
\* 'home' and the hint flag are still there.
C10_Witness ==
    /\ currentPage = "settings"
    /\ storage["neko_tutorial_settings"] = Unset
    /\ storage["neko_tutorial_home"] = "true"
    /\ storage[HintKey] = "true"

\* C11: the automatic start (checkAndStartTutorial at initialization, and the
\* check of the model-type change listener, which reads the same key) is gated
\* by the alias-aware seen check: when any alias key of the current context is
\* set, the check schedules no startTutorial().
C11_AutoStartGatedByAliases ==
    hasSeenTutorial(storage, currentPage) =>
        checkAndStartTutorial(S).pendingAutoStarts = pendingAutoStarts

\* The raw lists validation is checked on: the list getStepsForPage() returns in
\* the current state, and that list with its first step or one of the steps
\* whose target is missing marked skipInitialCheck (the flag the filter tests
\* first; no step list of this file sets it).
RawStepLists ==
    LET steps == getStepsForPage(S).steps
    IN  { steps } \cup
        { [ steps EXCEPT ![i].skipInitialCheck = TRUE ] :
            i \in { j \in DOMAIN steps : j = 1 \/ steps[j].element \notin present } }

\* C12: for a raw list of N steps of which M, without skipInitialCheck, have a
\* target that is not in the document, the validated list has N - M steps and
\* is the raw list without those M steps, the others in their order; and a
\* startTutorial() that starts a run hands that list to the renderer.
C12_ValidationKeepsNMinusM ==
    /\ \A steps \in RawStepLists :
           LET v == FilterFrom(S, steps, 1).valid
               dropped == { i \in DOMAIN steps :
                              ~steps[i].skipInitialCheck
                              /\ steps[i].element \notin present }
           IN  /\ Len(v) = Len(steps) - Cardinality(dropped)
               /\ v = SelectSeq(steps,
                        LAMBDA st : st.skipInitialCheck \/ st.element \in present)
    /\ LET r == startTutorial(S)
       IN  (~driver.active /\ r.driver.active) =>
               r.cachedValidSteps =
                   SelectSeq(getStepsForPage(S).steps,
                             LAMBDA st : st.element \in present)

\* A home run whose raw list had 20 steps (the hint step included) and lost
\* the three steps on #live2d-container, which is not in the document.
C12_Witness ==
    /\ currentPage = "home"
    /\ "#live2d-container" \notin present
    /\ driver.active
    /\ Len(cachedValidSteps) = 17
    /\ cachedValidSteps[1].element = "#live2d-lock-icon"
    /\ cachedValidSteps[17].element = "body"

\* C13: when the context has no steps, or no step's target is in the document,
\* a startTutorial() call that passes its two guards starts no tour:
\* isTutorialRunning stays false, window.isInTutorial and the renderer are as
\* before (no setSteps, no drive, no listener), no prompt is shown, no
\* interval is installed, and the page, the environment saves and the storage
\* are untouched.
C13_NoStepsNoTour ==
    LET steps == getStepsForPage(S).steps
        r == startTutorial(S)
    IN  (/\ isInitialized
         /\ ~isTutorialRunning
         /\ \A i \in DOMAIN steps :
                ~steps[i].skipInitialCheck /\ steps[i].element \notin present)
        => /\ ~r.isTutorialRunning
           /\ r.isInTutorial = isInTutorial
           /\ r.driver = driver
           /\ r.cachedValidSteps = cachedValidSteps
           /\ r.prompts = prompts
           /\ r.liveIntervals = liveIntervals
           /\ r.protectionTimer = protectionTimer
           /\ r.dom = dom
           /\ r.modifiedElementsMap = modifiedElementsMap
           /\ r.saved = saved
           /\ r.storage = storage

\* startTutorial() just returned because validation dropped every step of a
\* non-empty list, and nothing runs.
C13_Witness ==
    /\ lastWarn = "noValidSteps"
    /\ configs(currentPage, modelType) # << >>
    /\ ~isTutorialRunning
    /\ ~isInTutorial
    /\ ~driver.active
    /\ storage = NoStorage

\* The pages that show the fullscreen prompt, alone: the engine after its
\* constructor on such a page.
LiveInit == Init /\ currentPage \in pagesNeedingFullscreen

\* The steps possible on such a page (the model-type control is on
\* model_manager only).
LiveNext ==
    \/ HostStartTutorial
    \/ AutoStartTimer
    \/ RendererDestroy
    \/ RestartTutorial
    \/ RestartCurrentTutorial
    \/ ResetPageTutorial
    \/ ResetAllTutorials
    \/ AcceptPrompt
    \/ FullscreenEnter
    \/ FullscreenDenied
    \/ FullscreenExit
    \/ FallbackFire
    \/ FallbackFireAfterChange
    \/ StepStartChain
    \/ ProtectionTick
    \/ HighlightedTimer
    \/ StepChange

\* The timers and promise chains of an accepted prompt run when they are due:
\* the 2 s fallback fires, and a chain that was started reaches its
\* startTutorialSteps call (the waits in it are bounded).  Nothing is assumed
\* of the browser's answer to the fullscreen request, of the user or of the
\* host.
LiveSpec ==
    /\ LiveInit
    /\ [][LiveNext]_vars
    /\ WF_vars(FallbackFire)
    /\ WF_vars(FallbackFireAfterChange)
    /\ WF_vars(StepStartChain)

\* C14: after the fullscreen prompt is accepted, startTutorialSteps is
\* eventually invoked (it sets window.isInTutorial), whatever the browser does
\* with the fullscreen request: the engine is not left waiting forever with
\* isTutorialRunning true.  The acceptances taken are those with no
\* protection interval live, so that the bound on intervals never holds a
\* start back.
C14_AcceptedPromptStarts ==
    (fsClosures.lf > 0 /\ liveIntervals = {}) ~> isInTutorial

\* C15: when the readiness wait of the page resolves false (home: no toolbar
\* within 3 s; chara_manager: no catgirl card within 5 s), checkAndStartTutorial
\* sets no timer for startTutorial(): the automatic start is skipped.
C15_TimedOutWaitSkipsAutoStart ==
    ~ReadinessWait =>
        checkAndStartTutorial(S).pendingAutoStarts = pendingAutoStarts

\* C16: while window.driver is not available, waitForDriver polls at most
\* maxAttempts times and reports its failure once, isInitialized stays false,
\* no tour runs, and each public operation (startTutorial, restartTutorial,
\* restartCurrentTutorial, resetPageTutorial, resetAllTutorials) leaves the
\* engine's state and the stored flags as they are.
C16_InertWithoutRenderer ==
    ~windowDriver =>
        /\ attempts <= maxAttempts
        /\ errors <= 1
        /\ ~isInitialized
        /\ ~isTutorialRunning /\ ~isInTutorial /\ ~driver.active
        /\ Silent(startTutorial(S)) = S
        /\ Silent(restartTutorial(S)) = S
        /\ Silent(restartCurrentTutorial(S)) = S
        /\ \A pageKey \in ContextNames \cup { "all" } :
               resetPageTutorial(S, pageKey) = S
        /\ resetAllTutorials(S) = S

\* The list holds the end-of-tour hint step.
IncludesHint(steps) == \E i \in DOMAIN steps : steps[i] = getTutorialResetHintStep

\* C17: a startTutorial() that starts a run gives it the hint step exactly when
\* the page is home (whose raw list is not empty) and the hint flag is not set
\* at that moment; the end of a run that included the hint step sets the flag,
\* and the run started next does not include it; the end of a run without the
\* hint step leaves the flag as it is.
C17_HintStepOnce ==
    /\ LET r == startTutorial(S)
       IN  (~driver.active /\ r.driver.active) =>
               (IncludesHint(r.cachedValidSteps)
                    <=> /\ currentPage = "home"
                        /\ Len(configs(currentPage, modelType)) > 0
                        /\ storage[HintKey] \in { Unset, "" })
    /\ driver.active =>
           LET e == driverDestroy(S)
               next == startTutorial(e)
           IN  IF IncludesHint(cachedValidSteps)
               THEN /\ e.storage[HintKey] = "true"
                    /\ next.driver.active => ~IncludesHint(next.cachedValidSteps)
               ELSE e.storage[HintKey] = storage[HintKey]

\* A home run that showed the hint step has ended and the flag is stored.
C17_Witness ==
    /\ currentPage = "home"
    /\ IncludesHint(cachedValidSteps)
    /\ ~driver.active /\ ~isInTutorial
    /\ storage[HintKey] = "true"
    /\ ~shouldMarkHintShown

\* The elements startTutorialSteps overrides directly.
OverriddenElements ==
    { "#chat-container", "#live2d-canvas", "#live2d-container",
      "#live2d-lock-icon", "#live2d-floating-buttons" }

\* C18: when a step transition of a run takes the first snapshot of an element
\* that startTutorialSteps had overridden, the end of the run leaves every
\* inline property of the element that only the engine wrote (all but display,
\* which the host set when it hid the element) at the value it had before the
\* run: the snapshot restored last re-applies no value the engine had forced.
C18_SnapshotHoldsNoForcedValue ==
    (driver.active /\ isInTutorial) =>
        \A i \in DOMAIN cachedValidSteps :
            LET e == cachedValidSteps[i].element
                t == onStepChange(S, i, TRUE)
            IN  (/\ e \in OverriddenElements \cap present
                 /\ ~modifiedElementsMap[e].has
                 /\ t.modifiedElementsMap[e].has)
                => \A p \in StyleProps \ { "display" } :
                       driverDestroy(t).dom[e].style.decl[p]
                           = preStart[e].style.decl[p]

\* The element as the host leaves it when it hides it.
HiddenByHost(s, e) == [ s EXCEPT !.dom[e] = SetStyle(@, "display", "none") ]

\* C19: a showElementForTutorial call on an element, hidden again or not,
\* leaves the element with one map entry; if the element had an entry, the
\* captured inline style and class list are the ones it had; if not, they are
\* the element's own at that moment; and restoreAllModifiedElements gives the
\* element the captured inline style and class list back.
C19_SnapshotTakenOnce ==
    \A e \in present \cap DOMAIN dom :
    \A st \in { S, HiddenByHost(S, e) } :
        LET r == showElementForTutorial(st, e, e)
            was == modifiedElementsMap[e]
            rec == r.modifiedElementsMap[e]
            back == restoreAllModifiedElements(r).dom[e]
        IN  /\ rec.has
            /\ rec.originalInlineStyle =
                  (IF was.has THEN was.originalInlineStyle
                   ELSE OriginalInlineStyle(st.dom[e]))
            /\ rec.originalClassName =
                  (IF was.has THEN was.originalClassName ELSE st.dom[e].className)
            /\ OriginalInlineStyle(back) = rec.originalInlineStyle
            /\ back.className = rec.originalClassName

\* The lock icon was shown twice in one run, each time after the host hid it,
\* and its entry still holds the style of the first time.
C19_Witness ==
    /\ sheet["#live2d-lock-icon"].autoHide
    /\ driver.active
    /\ modifiedElementsMap["#live2d-lock-icon"].has
    /\ Len(modifiedElementsMap["#live2d-lock-icon"].modifiedProperties) >= 2
    /\ modifiedElementsMap["#live2d-lock-icon"].originalInlineStyle["display"] = "none"
    /\ dom["#live2d-lock-icon"].style.decl["display"] = Important("flex")

\* The run is over: the renderer shows no tour and onTutorialEnd has cleared
\* the global flag.
TourEnded == ~driver.active /\ ~isInTutorial /\ ~isTutorialRunning

\* No step of the character manager names a selector for which onStepChange
\* starts _ensureCharaManagerExpanded: the chain is never scheduled.
C20_NoExpandChain ==
    \A i \in DOMAIN cachedValidSteps : ~needsAdvancedSettings(cachedValidSteps[i])

\* After the end, no auto-click is due that changes the host's settings popup.
C20_NoClickAfterEnd ==
    (TourEnded /\ pendingClicks > 0) => autoClick(S).settingsPopup = settingsPopup

\* After the end, no guard interval is left.
C20_NoGuardAfterEnd ==
    TourEnded => (guardIntervals = 0 /\ ~nextButtonGuardTimer /\ ~nextButtonGuardActive)

\* After the end, a tick of a protection interval writes no style.
C20_NoTickAfterEnd ==
    TourEnded => protectionTick(S).dom = dom

\* After the end, the deferred enablePopoverDragging attaches nothing.
C20_NoDragAfterEnd ==
    TourEnded => (~popoverDragListeners /\ ~enablePopoverDragging(S).popoverDragListeners)

\* C20: once a run has ended, no callback deferred during it changes the
\* host's interface: the 300 ms auto-click does not click, the chain of
\* _ensureCharaManagerExpanded is not running, no guard interval and no
\* protection tick writes a style, and no drag listener is attached.
C20_NoDeferredEffectAfterEnd ==
    /\ C20_NoExpandChain
    /\ C20_NoClickAfterEnd
    /\ C20_NoGuardAfterEnd
    /\ C20_NoTickAfterEnd
    /\ C20_NoDragAfterEnd

\* C21: restoreAllModifiedElements gives every tracked element whose
\* restoration does not throw its captured inline style and class list back
\* and removes its data attribute, whether or not another tracked element's
\* restoration throws, and leaves the map empty; and an onTutorialEnd in the
\* same state runs to its end: the map is empty and the flags are down.
C21_ThrowingRestoreIsContained ==
    LET r == restoreAllModifiedElements(S)
        t == onTutorialEnd(S)
    IN  /\ \A e \in DOMAIN dom :
             (modifiedElementsMap[e].has /\ ~sheet[e].readOnlyClass) =>
                 /\ OriginalInlineStyle(r.dom[e])
                        = modifiedElementsMap[e].originalInlineStyle
                 /\ r.dom[e].className = modifiedElementsMap[e].originalClassName
                 /\ ~r.dom[e].inTutorial
        /\ \A e \in DOMAIN dom :
             ~r.modifiedElementsMap[e].has /\ ~t.modifiedElementsMap[e].has
        /\ ~t.isTutorialRunning /\ ~t.isInTutorial

\* A run has ended on the home page whose toolbar is an SVG element: the
\* toolbar's restoration threw (its data attribute is still there), the lock
\* icon is hidden inline as before the run, and the map is empty.
C21_Witness ==
    /\ sheet["#live2d-floating-buttons"].readOnlyClass
    /\ ~driver.active /\ ~isTutorialRunning
    /\ dom["#live2d-floating-buttons"].inTutorial
    /\ dom["#live2d-lock-icon"].style.decl = HiddenDecl
    /\ \A e \in DOMAIN dom : ~modifiedElementsMap[e].has

\* C22: with no tracked element restoreAllModifiedElements changes no element
\* and no state, and a second call right after a call changes nothing.
C22_RestoreIdempotent ==
    LET once == restoreAllModifiedElements(S)
    IN  /\ (\A e \in DOMAIN dom : ~modifiedElementsMap[e].has) => once = S
        /\ restoreAllModifiedElements(once) = once

\* A run on the home page with its widgets hidden inline has ended: the
\* restoration ran with tracked elements, the lock icon is hidden as before,
\* and the map is empty for the next call.
C22_Witness ==
    /\ currentPage = "home"
    /\ ~sheet["#live2d-floating-buttons"].readOnlyClass
    /\ ~driver.active /\ ~isTutorialRunning
    /\ Len(cachedValidSteps) > 0
    /\ dom["#live2d-lock-icon"].style.decl = HiddenDecl
    /\ preStart["#live2d-lock-icon"].style.decl = HiddenDecl
    /\ \A e \in DOMAIN dom : ~modifiedElementsMap[e].has

\* C23: at most one protection interval is live; the engine holds the handle
\* of every live one; one is live only while a run started by
\* startTutorialSteps is on; and after the end of a run none is live.
C23_OneProtectionInterval ==
    /\ Cardinality(liveIntervals) <= 1
    /\ liveIntervals \subseteq { protectionTimer }
    /\ liveIntervals # {} => (isInTutorial /\ driver.active)
    /\ TourEnded => liveIntervals = {}

\* The period of the protection interval, in ms.
TickPeriod == 200

\* The step of the clock and the period of the script that hides the toolbar:
\* 50 ms and 150 ms.
Quantum == TickPeriod \div 4

HidePeriod == TickPeriod - Quantum

\* The host's script hides the toolbar.
hideToolbar(s) == StyleIfPresent(s, "#live2d-floating-buttons", "display", "none")

\* 50 ms pass: the script hides the toolbar when its period is over, the
\* protection interval ticks when its own is; when both fall on the same
\* instant they run in either order.
TimePasses ==
    LET t == sinceTick + Quantum
        h == sinceHide + Quantum
        ticks == liveIntervals # {} /\ t >= TickPeriod
        hides == /\ h >= HidePeriod
                 /\ Len(modifiedElementsMap["#live2d-floating-buttons"].modifiedProperties)
                        < MaxOverrides
        later == [ S EXCEPT
                     !.sinceTick = IF liveIntervals = {} \/ ticks THEN 0 ELSE t,
                     !.sinceHide = IF h >= HidePeriod THEN 0 ELSE h ]
        outcomes ==
            IF ticks /\ hides
            THEN { protectionTick(hideToolbar(later)), hideToolbar(protectionTick(later)) }
            ELSE IF ticks THEN { protectionTick(later) }
            ELSE IF hides THEN { hideToolbar(later) }
            ELSE { later }
    IN  /\ \E n \in outcomes : Install(n)
        /\ UNCHANGED << modelType, fsClosures, pendingStepStarts, pendingTypeChecks >>

\* The home page with the script that hides the toolbar, followed in time.
ProtectInit ==
    /\ Init
    /\ currentPage = "home"
    /\ sheet["#live2d-floating-buttons"].autoHide

ProtectNext ==
    \/ AutoStartTimer
    \/ HostStartTutorial
    \/ RendererDestroy
    \/ StepChange
    \/ HighlightedTimer
    \/ TimePasses

ProtectSpec == ProtectInit /\ [][ProtectNext]_vars

ToolbarVisible == isElementVisible(S, "#live2d-floating-buttons")

\* C24: with the protection interval ticking every 200 ms and a script hiding
\* the toolbar every 150 ms, the toolbar is visible when the renderer has
\* moved to a step of a running tour and highlights it; a tick of the interval
\* during the tour shows the toolbar again; and a tick while
\* window.isInTutorial is false writes no style.
C24_ToolbarShownAtHighlights ==
    [][ /\ (StepChange /\ isInTutorial' /\ driver'.active) => ToolbarVisible'
        /\ isInTutorial' => isElementVisible(protectionTick(S), "#live2d-floating-buttons")'
        /\ ~isInTutorial' => (protectionTick(S).dom = dom)' ]_vars

---------------------------------------------------------------------------
(* The guard of the emotion manager's first step.                          *)

\* The element of the step the renderer has on display, "" if there is none.
ShownElement ==
    IF driver.currentStep \in 1..Len(cachedValidSteps)
    THEN cachedValidSteps[driver.currentStep].element ELSE ""

C26_GuardedStepAlwaysGuarded ==
    ( /\ currentPage = "emotion_manager" /\ driver.active
      /\ ShownElement = "#model-select"
      /\ ~hasEmotionManagerModelSelected )
    => driver.nextDisabled

---------------------------------------------------------------------------
(* The redirects of onStepChange.                                          *)

\* The steps whose entry needs the host's model, on the page on display.
NeedsHostModel(c) ==
    \/ currentPage = "model_manager" /\ c.element = "#emotion-config-btn"
    \/ currentPage = "emotion_manager" /\ c.element = "#emotion-config"

\* C28: onStepChange for a step that needs the host's model, while the host has
\* none, hands an earlier step of the validated list to showStep and leaves
\* the step's own element alone: no snapshot, no override, no click timer.
C28_ViolatedStepIsRedirected ==
    driver.active =>
      \A i \in 1..Len(cachedValidSteps) :
         LET c == cachedValidSteps[i]
             r == onStepChange(S, i, FALSE)
         IN  NeedsHostModel(c) =>
               /\ RedirectTarget(cachedValidSteps) \in 1..(i - 1)
               /\ r.driver.currentStep = Followed(RedirectTarget(cachedValidSteps))
               /\ r.modifiedElementsMap = modifiedElementsMap
               /\ r.pendingClicks = pendingClicks
               /\ c.element \in DOMAIN dom => r.dom[c.element] = dom[c.element]

---------------------------------------------------------------------------
(* A renderer that throws while a tour is started.                         *)

\* Where the renderer can throw inside startTutorialSteps.
ThrowPoints == { "setSteps", "start" }

\* startTutorialSteps(validSteps) left by an exception: driver.setSteps throws
\* after the list was cached, or driver.start throws after everything else was
\* done and the listeners were registered.
startTutorialStepsThrows(s, validSteps, at) ==
    IF at = "setSteps" THEN [ s EXCEPT !.cachedValidSteps = validSteps ]
    ELSE [ startTutorialSteps(s, validSteps) EXCEPT !.driver.active = FALSE,
                                                    !.driver.steps = << >>,
                                                    !.driver.currentStep = 0 ]

\* startTutorial() on a page without the fullscreen prompt, when the renderer
\* throws: the catch block reports the error and returns.
startTutorialCaught(s, at) ==
    LET g == getStepsForPage(s)
        f == FilterFrom([ g.s EXCEPT !.preStart = g.s.dom ], g.steps, 1)
        r == [ f.s EXCEPT !.isTutorialRunning = TRUE ]
    IN  [ startTutorialStepsThrows(r, f.valid, at) EXCEPT !.lastWarn = "startFailed" ]

\* The host calls startTutorial() and the renderer throws.
StartThrows ==
    /\ isInitialized /\ ~AlreadyRunning(S)
    /\ startTutorial(S).driver.active
    /\ \E at \in ThrowPoints : Install(startTutorialCaught(S, at))
    /\ UNCHANGED << modelType, fsClosures, pendingStepStarts, pendingTypeChecks >>

ThrowInit == Init /\ currentPage \notin pagesNeedingFullscreen

ThrowNext ==
    \/ HostStartTutorial
    \/ AutoStartTimer
    \/ StartThrows
    \/ StepChange
    \/ RendererDestroy

ThrowSpec == ThrowInit /\ [][ThrowNext]_vars

\* C29: when startTutorial has caught an exception of the renderer, the engine
\* is not running, no override of the aborted start remains (styles as they
\* were before the call, no tour flag, no protection interval), and
\* startTutorial called next starts a tour.
C29_FailedStartLeavesIdle ==
    lastWarn = "startFailed" =>
        /\ ~isTutorialRunning
        /\ dom = preStart
        /\ ~isInTutorial
        /\ liveIntervals = {}
        /\ startTutorial(S).driver.active

---------------------------------------------------------------------------
(* Leaving fullscreen at the end of a tour.                                *)

\* The pages and the fullscreen staging, without a user who leaves fullscreen
\* by hand: fullscreen then ends only where the engine ends it.
FsNext ==
    \/ HostStartTutorial
    \/ AutoStartTimer
    \/ AcceptPrompt
    \/ FullscreenEnter
    \/ FullscreenDenied
    \/ FallbackFire
    \/ FallbackFireAfterChange
    \/ StepStartChain
    \/ RendererDestroy

FsSpec == Init /\ [][FsNext]_vars

\* C30: the end of a tour calls exitFullscreenMode only if the document is in
\* fullscreen, which with no user leaving it by hand means that the run entered
\* it: not on a page without the prompt, and not for a run the 2 s fallback
\* started while fullscreen had not engaged.
C30_ExitOnlyIfEntered ==
    (driver.active /\ ~fullscreen) => driverDestroy(S).lastWarn # "exitFullscreen"

---------------------------------------------------------------------------
(* The automatic click.                                                    *)

\* C31: the delayed click of a step with action 'click' never closes what it
\* opens: when the settings popup is already open, the timer leaves it open.
C31_ClickNeverClosesOpenTarget ==
    [][ (settingsPopup /\ AutoClickTimer) => settingsPopup' ]_vars

---------------------------------------------------------------------------
(* The sub-contexts of model_manager.                                      *)

\* The sub-context of model_manager the run on display does not show.
OtherSubContext ==
    IF RunContext = "model_manager_vrm" THEN "model_manager_live2d"
    ELSE "model_manager_vrm"

\* C32: on model_manager the end of a run writes the seen flag of the
\* sub-context whose step list the run validated, and leaves the flag of the
\* other sub-context as it was, also when the model type was switched meanwhile.
C32_SeenFlagOfValidatedSubContext ==
    (currentPage = "model_manager" /\ driver.active) =>
        LET e == driverDestroy(S)
        IN  /\ e.storage[STORAGE_KEY_PREFIX \o RunContext] = "true"
            /\ e.storage[STORAGE_KEY_PREFIX \o OtherSubContext] =
                 storage[STORAGE_KEY_PREFIX \o OtherSubContext]

---------------------------------------------------------------------------
(* Restarting while a tour is on display.                                  *)

\* C33: when restartTutorial() has returned, no alias key of the current
\* context is set: the teardown of the run that was on display does not write
\* back the flags restartTutorial removed.
C33_RestartLeavesFlagsRemoved ==
    [][ RestartTutorial =>
          \A k \in Range(getStorageKeysForPage(currentPage)) : storage'[k] = Unset ]_vars

---------------------------------------------------------------------------
(* The model-type listener, with the sub-context of each check remembered.  *)

\* The 500 ms timer of the change listener; the sub-context its check
\* resolved is remembered when it sets the start timer.
TypeCheckObserved ==
    /\ pendingTypeChecks > 0
    /\ LET n == modelTypeChanged(S)
       IN  Install([ n EXCEPT !.pendingStartFor =
                        IF n.pendingAutoStarts > pendingAutoStarts
                        THEN SubContext(modelType) ELSE @ ])
    /\ pendingTypeChecks' = pendingTypeChecks - 1
    /\ UNCHANGED << modelType, fsClosures, pendingStepStarts >>

\* The model manager, its page rendered.
TypeInit ==
    /\ Init
    /\ currentPage = "model_manager"
    /\ present = Rendered(currentPage)

TypeNext ==
    \/ ModelTypeChange
    \/ TypeCheckObserved
    \/ AutoStartTimer
    \/ HostStartTutorial
    \/ RendererDestroy

TypeSpec == TypeInit /\ [][TypeNext]_vars

\* C34: on model_manager the 500 ms check of a model-type change sets the
\* timer of a start exactly when the sub-context it resolves has no seen flag;
\* the start such a timer makes, when no tour is running, shows the tour of
\* the sub-context the check resolved; and #model-type-select never carries
\* more than one change listener of the engine.
C34_TypeChangeStartsNewSubContext ==
    [][ /\ (pendingTypeChecks > 0 /\ TypeCheckObserved) =>
              pendingAutoStarts' = pendingAutoStarts
                  + (IF Truthy(storage[getStorageKey(modelType)]) THEN 0 ELSE 1)
        /\ (pendingStartFor # "" /\ ~isTutorialRunning /\ ~driver.active
              /\ AutoStartTimer /\ driver.active') =>
              RunContext' = pendingStartFor
        /\ typeListeners' <= 1 ]_vars

---------------------------------------------------------------------------
(* The readiness waits, poll by poll.                                      *)

\* The delay of the timer that calls the next poll.
PollPeriod == 100

\* maxWaitTime: the default of waitForFloatingButtons and waitForCatgirlCards.
maxWaitTime == IF currentPage = "home" THEN 3000 ELSE 5000

\* What the poll of the page's wait looks for.
WaitTarget ==
    IF currentPage = "home" THEN { "#live2d-floating-buttons" } ELSE CatgirlCards

\* The timeout test is skipped.
NeverTimesOut(w) ==
    IF WaitTarget \subseteq present THEN [ w EXCEPT !.result = "true" ]
    ELSE [ w EXCEPT !.result = "pending" ]

\* checkFloatingButtons() / checkCatgirlCards() at w.elapsed ms after the
\* start: resolve(true), resolve(false), or the timer of the next poll.
checkReady(w) ==
    IF WaitTarget \subseteq present THEN [ w EXCEPT !.result = "true" ]
    ELSE IF w.elapsed > maxWaitTime THEN [ w EXCEPT !.result = "false" ]
    ELSE [ w EXCEPT !.result = "pending" ]

WaitIdle ==
    UNCHANGED << path, currentPage, modelType, storage, dom, sheet, isInitialized,
                 isTutorialRunning, isInTutorial, shouldMarkHintShown,
                 cachedValidSteps, modifiedElementsMap, saved, protectionTimer,
                 liveIntervals, popoverDragListeners, driver, prompts, fsClosures,
                 pendingStepStarts, fullscreen, fsRequested, pendingAutoStarts,
                 pendingTypeChecks, pendingClicks, settingsPopup,
                 nextButtonGuardTimer, nextButtonGuardActive, guardIntervals,
                 sinceTick, sinceHide, windowDriver, attempts, errors, lastWarn,
                 preStart, modelSelected, typeListeners, pendingStartFor, ui,
                 expanders, dragSets >>

\* The wait is called: its first poll runs at once.
WaitCalled ==
    /\ wait.result = "none"
    /\ wait' = checkReady([ wait EXCEPT !.elapsed = 0 ])
    /\ UNCHANGED present
    /\ WaitIdle

\* The 100 ms timer calls the next poll.
WaitPoll ==
    /\ wait.result = "pending"
    /\ wait' = checkReady([ wait EXCEPT !.elapsed = @ + PollPeriod ])
    /\ UNCHANGED present
    /\ WaitIdle

\* The host adds an element the wait looks for.
HostRenders ==
    /\ wait.result = "pending"
    /\ \E e \in WaitTarget \ present : present' = present \cup { e }
    /\ UNCHANGED wait
    /\ WaitIdle

\* The pages with a wait, on a first visit.
WaitInit ==
    /\ Init
    /\ currentPage \in { "home", "chara_manager" }
    /\ storage = NoStorage
    /\ windowDriver

WaitNext == WaitCalled \/ WaitPoll \/ HostRenders

\* The browser runs a timer that is set.
WaitSpec == WaitInit /\ [][WaitNext]_vars /\ WF_vars(WaitCalled) /\ WF_vars(WaitPoll)

\* C35: a readiness wait that was called resolves (it has no path that
\* rejects); a poll that finds the elements resolves it to true; it resolves
\* to false at the first poll later than the timeout after the start, which
\* is no later than the timeout plus one poll period; until then it pends.
C35_WaitResolvesInTime ==
    /\ [](/\ wait.result \in { "none", "pending", "true", "false" }
          /\ wait.result = "pending" => wait.elapsed <= maxWaitTime
          /\ wait.result = "false" =>
                /\ wait.elapsed > maxWaitTime
                /\ wait.elapsed <= maxWaitTime + PollPeriod)
    /\ [][ (WaitCalled \/ WaitPoll) =>
              ((wait'.result = "true") <=> (WaitTarget \subseteq present)) ]_vars
    /\ (wait.result = "pending") ~> (wait.result \in { "true", "false" })

\* The character cards never came: the wait resolved to false one poll after
\* its 5 s.
C35_Witness ==
    /\ currentPage = "chara_manager"
    /\ wait = [ elapsed |-> 5100, result |-> "false" ]

---------------------------------------------------------------------------
(* _ensureCharaManagerExpanded, attempt by attempt.                        *)

\* maxAttempts of _ensureCharaManagerExpanded
maxExpandAttempts == 10

CardStates == { "missing", "collapsed", "expanded" }
FoldStates == { "missing", "closed", "open" }

\* The test is skipped: the section always counts as folded.
SeenFolded(u) == TRUE

\* foldContainer && foldToggle && !isExpanded: the section carries neither
\* the class 'open' nor a computed display other than 'none'.
foldNotExpanded(u) == u.fold = "closed"

\* The host's handler of a click on .catgirl-expand and on .fold-toggle; a
\* host that does not respond leaves the page as it is.
ClickExpand(u, responds) ==
    IF responds
    THEN [ u EXCEPT !.card = IF @ = "collapsed" THEN "expanded" ELSE "collapsed" ]
    ELSE u

ClickToggle(u, responds) ==
    IF responds
    THEN [ u EXCEPT !.fold = IF @ = "closed" THEN "open" ELSE "closed" ]
    ELSE u

\* An attempt that sets the timer of the next one, if it may; an invocation
\* with no timer left is over.
Retry(a) ==
    IF a < maxExpandAttempts
    THEN [ phase |-> "try", attempts |-> a, clickedToggle |-> FALSE ]
    ELSE NoExpander

\* tryExpand(): one attempt of the invocation e on the page u: the invocation
\* and the page after it, and what it clicked.
tryExpand(e, u, responds) ==
    LET a == e.attempts + 1
    IN  IF u.card = "missing"
        THEN [ e |-> Retry(a), ui |-> u, click |-> "none" ]
        ELSE IF u.card = "collapsed"
        THEN [ e |-> Retry(a), ui |-> ClickExpand(u, responds), click |-> "expand" ]
        ELSE IF foldNotExpanded(u)
        THEN [ e |-> [ phase |-> "verify", attempts |-> a, clickedToggle |-> TRUE ],
               ui |-> ClickToggle(u, responds), click |-> "toggle" ]
        ELSE [ e |-> [ phase |-> "verify", attempts |-> a, clickedToggle |-> FALSE ],
               ui |-> u, click |-> "none" ]

\* The 500 ms verification of an attempt.
verifyExpand(e, u) ==
    IF e.clickedToggle /\ e.attempts < maxExpandAttempts /\ u.fold = "closed"
    THEN Retry(e.attempts)
    ELSE NoExpander

ExpandIdle ==
    UNCHANGED << path, currentPage, modelType, storage, dom, sheet, present,
                 isInitialized, isTutorialRunning, isInTutorial,
                 shouldMarkHintShown, cachedValidSteps, modifiedElementsMap,
                 saved, protectionTimer, liveIntervals, popoverDragListeners,
                 driver, prompts, fsClosures, pendingStepStarts, fullscreen,
                 fsRequested, pendingAutoStarts, pendingTypeChecks,
                 pendingClicks, settingsPopup, nextButtonGuardTimer,
                 nextButtonGuardActive, guardIntervals, sinceTick, sinceHide,
                 windowDriver, attempts, errors, lastWarn, preStart,
                 modelSelected, typeListeners, pendingStartFor, wait, dragSets >>

Attempted(i, responds) ==
    LET r == tryExpand(expanders[i], ui, responds)
    IN  /\ expanders' = [ expanders EXCEPT ![i] = r.e ]
        /\ ui' = r.ui
        /\ ExpandIdle

\* onStepChange calls _ensureCharaManagerExpanded(): the first attempt runs
\* at once.
EnsureCalled(i) ==
    /\ expanders[i].phase = "idle"
    /\ \E responds \in BOOLEAN :
          LET r == tryExpand(NoExpander, ui, responds)
          IN  /\ expanders' = [ expanders EXCEPT ![i] = r.e ]
              /\ ui' = r.ui
    /\ ExpandIdle

\* The 300 ms or 600 ms timer of a retry.
RetryTimer(i) ==
    /\ expanders[i].phase = "try"
    /\ \E responds \in BOOLEAN : Attempted(i, responds)

\* The 500 ms timer of the verification.
VerifyTimer(i) ==
    /\ expanders[i].phase = "verify"
    /\ expanders' = [ expanders EXCEPT ![i] = verifyExpand(@, ui) ]
    /\ UNCHANGED ui
    /\ ExpandIdle

\* The host or the user changes the card or the section.
HostChangesCard ==
    /\ \E c \in CardStates, f \in FoldStates :
          /\ [ card |-> c, fold |-> f ] # ui
          /\ ui' = [ card |-> c, fold |-> f ]
    /\ UNCHANGED expanders
    /\ ExpandIdle

\* The character manager with its cards rendered, on a first visit.
ExpandInit ==
    /\ Init
    /\ currentPage = "chara_manager"
    /\ present = Rendered(currentPage)

ExpandNext ==
    \/ \E i \in 1..MaxExpanders : EnsureCalled(i)
    \/ \E i \in 1..MaxExpanders : RetryTimer(i)
    \/ \E i \in 1..MaxExpanders : VerifyTimer(i)
    \/ HostChangesCard

ExpandSpec == ExpandInit /\ [][ExpandNext]_vars

\* How far an invocation has come: each attempt and each verification counts
\* one; an invocation that is over has come all the way.
Rank(e) ==
    IF e.phase = "idle" THEN 2 * maxExpandAttempts + 1
    ELSE 2 * e.attempts - (IF e.phase = "try" THEN 0 ELSE 1)

\* What an attempt of invocation i would do now.
AttemptOf(i, responds) == tryExpand(expanders[i], ui, responds)

\* C36: an invocation of _ensureCharaManagerExpanded ends after at most 10
\* attempts whatever the page does (every timer of it that fires brings it
\* further, and the tenth attempt sets no retry); an attempt clicks
\* .catgirl-expand only when the card is collapsed and .fold-toggle only when
\* the section is folded, so with card and section open it clicks nothing;
\* this holds for every one of several invocations running at once.
C36_ExpandTerminatesAndNeverCloses ==
    \A i \in 1..MaxExpanders :
        /\ expanders[i].attempts <= maxExpandAttempts
        /\ expanders[i].phase = "try" => expanders[i].attempts < maxExpandAttempts
        /\ expanders[i].phase = "verify" =>
              Rank(verifyExpand(expanders[i], ui)) > Rank(expanders[i])
        /\ \A responds \in BOOLEAN :
              expanders[i].phase # "verify" =>
                /\ expanders[i].phase = "try" =>
                      Rank(AttemptOf(i, responds).e) > Rank(expanders[i])
                /\ AttemptOf(i, responds).click = "expand" => ui.card = "collapsed"
                /\ AttemptOf(i, responds).click = "toggle" =>
                      (ui.card = "expanded" /\ ui.fold = "closed")
                /\ (ui.card = "expanded" /\ ui.fold = "open") =>
                      /\ AttemptOf(i, responds).click = "none"
                      /\ AttemptOf(i, responds).ui = ui

\* Two invocations overlap: the first opened the section and waits for its
\* verification, the attempt of the second found it open and clicked nothing.
C36_Witness ==
    /\ ui = [ card |-> "expanded", fold |-> "open" ]
    /\ expanders[1] = [ phase |-> "verify", attempts |-> 2, clickedToggle |-> TRUE ]
    /\ expanders[2] = [ phase |-> "verify", attempts |-> 1, clickedToggle |-> FALSE ]

---------------------------------------------------------------------------
(* Interaction with the model during a tour.                               *)

\* The index of the step the renderer displays after the next notification
\* for step i: the target of the redirect, if onStepChange made one.
DisplayedAfter(i, has) ==
    IF Redirects(cachedValidSteps, cachedValidSteps[i], has)
    THEN RedirectTarget(cachedValidSteps) ELSE i

---------------------------------------------------------------------------
(* The drag handlers of the popover.                                       *)

\* C38: at most one set of drag handlers is attached at any moment, and it is
\* the set this._popoverDragListeners refers to; enablePopoverDragging during a
\* run leaves exactly one set attached however many were attached before;
\* onTutorialEnd leaves none, and none is attached once a run is over.
C38_OneDragSetAtATime ==
    /\ dragSets = (IF popoverDragListeners THEN 1 ELSE 0)
    /\ driver.active => enablePopoverDragging(S).dragSets = 1
    /\ onTutorialEnd(S).dragSets = 0
    /\ TourEnded => dragSets = 0

\* During a run a highlighted callback has attached the handlers.
C38_Witness ==
    /\ driver.active
    /\ popoverDragListeners
    /\ dragSets = 1

---------------------------------------------------------------------------
(* The list a step transition consults.                                    *)

\* C39: while the renderer shows a tour, the list onStepChange consults is
\* this.cachedValidSteps, the list startTutorialSteps cached and handed to the
\* renderer with setSteps; onStepChange does not call getStepsForPage, so an
\* index of the renderer's list is an index of the validated list.
C39_StepChangeConsultsCachedList ==
    driver.active =>
        /\ cachedValidSteps # << >>
        /\ driver.steps = cachedValidSteps
        /\ StepsConsulted(S) = [ steps |-> driver.steps, s |-> S ]
        /\ \A i \in 1..Len(driver.steps), has \in HostModelAnswers :
              LET r == onStepChange(S, i, has)
              IN  /\ r.cachedValidSteps = cachedValidSteps
                  /\ r.shouldMarkHintShown = shouldMarkHintShown

\* A run whose validation dropped a step of the raw list: the renderer's
\* indices are those of the shorter list.
C39_Witness ==
    /\ driver.active
    /\ Len(cachedValidSteps) < Len(getStepsForPage(S).steps)
    /\ popoverDragListeners

---------------------------------------------------------------------------
(* The two resolvers of the context.                                       *)

\* new UniversalTutorialManager(): the fields the constructor assigns, then
\* waitForDriver(); detectPage() resolves the page again from the same path.
NewInstance(s) ==
    waitForDriver([ s EXCEPT !.driver = NewDriver,
                             !.isInitialized = FALSE,
                             !.isTutorialRunning = FALSE,
                             !.nextButtonGuardTimer = FALSE,
                             !.nextButtonGuardActive = FALSE,
                             !.modifiedElementsMap = [ e \in DOMAIN @ |-> NoRecord ] ])

\* initUniversalTutorialManager() while window.universalTutorialManager is set
initUniversalTutorialManager(s) ==
    IF currentPage # currentPageType(path)
    THEN NewInstance(driverDestroy(s))
    ELSE s

\* The host calls initUniversalTutorialManager() again.
InitAgain ==
    /\ Install(initUniversalTutorialManager(S))
    /\ UNCHANGED << modelType, fsClosures, pendingStepStarts, pendingTypeChecks >>

\* Any path, the page rendered, on a first visit.
ResolveInit ==
    /\ InitAt(Paths)
    /\ storage = NoStorage
    /\ present = Rendered(currentPage)
    /\ windowDriver

ResolveNext ==
    \/ HostStartTutorial
    \/ AutoStartTimer
    \/ RendererDestroy
    \/ InitAgain

ResolveSpec == ResolveInit /\ [][ResolveNext]_vars

\* C40: detectPage and initUniversalTutorialManager resolve every path to the
\* same context, so that a second call of initUniversalTutorialManager keeps
\* the instance: it destroys no tour and constructs nothing.
C40_ResolversAgree ==
    /\ detectPage(path) = currentPageType(path)
    /\ initUniversalTutorialManager(S) = S

====
